---------------------------- MODULE Spec2Model ----------------------------
(***************************************************************************)
(* Hybrid retrieval and query analysis of the daily-report RAG chatbot:    *)
(* QueryAnalyzer, KeywordFilter and HybridSearcher of                      *)
(* app/domain/report/search/hybrid_search.py, UnifiedRetriever of          *)
(* app/domain/report/search/retriever.py and ReportRAGChain of             *)
(* app/domain/report/core/rag_chain.py.                                    *)
(*                                                                         *)
(* Text.  A Python str is modelled as a sequence of characters.  A Hangul  *)
(* syllable is one code point in the source and one element here, written  *)
(* in Revised Romanization ("ga" is U+AC00); an ASCII character is itself. *)
(* The romanization is one-to-one on the syllables used, so substring and  *)
(* regular-expression matching see exactly what the source sees.           *)
(*                                                                         *)
(* Dates.  A datetime.date is its proleptic Gregorian ordinal (toordinal), *)
(* so timedelta arithmetic is integer arithmetic; date(y, m, d) validates  *)
(* as the constructor does and strftime("%Y-%m-%d") builds the ISO string. *)
(***************************************************************************)
EXTENDS Integers, Sequences, FiniteSets, TLC

VARIABLES
    tokens,         \* the words the question is made of, by name
    query,          \* the user's question (str)
    reference_date, \* retrieve's reference_date / extract_keywords' base_date
    owner,          \* ReportRAGChain.owner
    date_range_arg, \* retrieve's date_range argument (None or {start, end})
    top_k,          \* ReportRAGChain.top_k
    keywords,       \* the SearchKeywords value of the call
    pc,             \* position of the call
    sent,           \* requests made to the vector index, in order
    embed_log,      \* calls of embedding_service.embed_text, in order
    faults,         \* failures of the index and of the provider so far
    matched_ids,    \* customer_matched_chunk_ids
    resp,           \* the index's last query response (None: no response)
    results,        \* search_results / results of retrieve
    cursor,         \* index of the candidate the unresolved filter is at
    kept,           \* filtered_results of the unresolved filter
    ret             \* what the caller received

vars == <<tokens, query, reference_date, owner, date_range_arg, top_k, keywords,
          pc, sent, embed_log, faults, matched_ids, resp, results,
          cursor, kept, ret>>

None == "None"

-----------------------------------------------------------------------------
(* Characters and strings *)

Digits == {"0", "1", "2", "3", "4", "5", "6", "7", "8", "9"}

\* The syllables of the range [U+AC00 - U+D7A3] that the model's texts use.
Hangul ==
    {"ga", "gam", "gae", "gaek", "geon", "gye", "go", "gwa", "gyo", "gyeol",
     "gyun", "geum", "kkeut", "na", "nan", "nal", "nae", "nyeon", "neu",
     "neul", "nim", "da", "dal", "dam", "dae", "du", "deun", "ra", "ryeo",
     "ryo", "rin", "manh", "mo", "mot", "mol", "mi", "bi", "byeon", "beon",
     "bo", "bu", "bun", "sang", "so", "su", "ssi", "an", "al", "yak", "eo",
     "eon", "e", "yeok", "ye", "wa", "wan", "yo", "wol", "yu", "yul", "eun",
     "i", "il", "jang", "jeo", "jeok", "jeon", "jeong", "je", "jo", "jong",
     "ju", "jul", "jwo", "jeung", "ji", "jip", "jja", "cha", "cheo", "che",
     "choe", "tong", "pyeong", "po", "ha", "han", "hap", "hae", "haess",
     "hoek", "hwa", "ri", "ge", "min", "seo", "kim", "mu", "eop", "deon",
     "ja", "no", "seok", "eoss", "neun", "eul", "reul", "ui", "ro", "eu",
     "geun", "ppop", "a", "teu", "gu", "seong", "jak", "hal"}

IsHangul(c) == c \in Hangul
IsDigit(c) == c \in Digits
IsSpace(c) == c = " "

\* str.lower on one character: only cased (Latin) letters change.
LowerChar(c) ==
    CASE c = "V" -> "v"
      [] c = "S" -> "s"
      [] OTHER -> c

Lower(t) == [i \in 1..Len(t) |-> LowerChar(t[i])]

\* t[i:i+n] == k, Python's startswith at an offset (i is 1-based).
StartsAt(t, i, k) ==
    /\ i >= 1
    /\ i + Len(k) - 1 <= Len(t)
    /\ \A j \in 1..Len(k) : t[i + j - 1] = k[j]

\* Python's `k in t` on strings.
Contains(t, k) == \E i \in 1..(Len(t) + 1) : StartsAt(t, i, k)

\* any(keyword in t for keyword in keywords)
ContainsAny(t, ks) == \E k \in ks : Contains(t, k)

RECURSIVE SplitFrom(_, _, _)
\* str.split(): the maximal runs of non-space characters, in order.
SplitFrom(t, i, word) ==
    IF i > Len(t)
    THEN IF word = <<>> THEN <<>> ELSE <<word>>
    ELSE IF IsSpace(t[i])
         THEN (IF word = <<>> THEN <<>> ELSE <<word>>) \o SplitFrom(t, i + 1, <<>>)
         ELSE SplitFrom(t, i + 1, Append(word, t[i]))

Split(t) == SplitFrom(t, 1, <<>>)

RECURSIVE JoinWords(_)
\* ' '.join(words)
JoinWords(ws) ==
    IF ws = <<>> THEN <<>>
    ELSE IF Len(ws) = 1 THEN ws[1]
    ELSE ws[1] \o <<" ">> \o JoinWords(Tail(ws))

RECURSIVE DigitsValue(_)
\* int() of a run of decimal digits.
DigitsValue(ds) ==
    IF ds = <<>> THEN 0
    ELSE 10 * DigitsValue(SubSeq(ds, 1, Len(ds) - 1))
         + (CASE ds[Len(ds)] = "0" -> 0 [] ds[Len(ds)] = "1" -> 1
              [] ds[Len(ds)] = "2" -> 2 [] ds[Len(ds)] = "3" -> 3
              [] ds[Len(ds)] = "4" -> 4 [] ds[Len(ds)] = "5" -> 5
              [] ds[Len(ds)] = "6" -> 6 [] ds[Len(ds)] = "7" -> 7
              [] ds[Len(ds)] = "8" -> 8 [] OTHER -> 9)

-----------------------------------------------------------------------------
(* datetime.date *)

IsLeap(y) == (y % 4 = 0) /\ ((y % 100 # 0) \/ (y % 400 = 0))

DaysInMonth(y, m) ==
    CASE m \in {1, 3, 5, 7, 8, 10, 12} -> 31
      [] m \in {4, 6, 9, 11} -> 30
      [] OTHER -> IF IsLeap(y) THEN 29 ELSE 28

RECURSIVE DaysBeforeMonth(_, _)
DaysBeforeMonth(y, m) ==
    IF m <= 1 THEN 0 ELSE DaysBeforeMonth(y, m - 1) + DaysInMonth(y, m - 1)

DaysBeforeYear(y) ==
    365 * (y - 1) + ((y - 1) \div 4) - ((y - 1) \div 100) + ((y - 1) \div 400)

\* date(year, month, day) raises ValueError outside these ranges.
ValidYMD(y, m, d) ==
    /\ y \in 1..9999
    /\ m \in 1..12
    /\ d >= 1
    /\ d <= DaysInMonth(y, m)

\* date(year, month, day).toordinal()
Ordinal(y, m, d) == DaysBeforeYear(y) + DaysBeforeMonth(y, m) + d

\* date.weekday(): 0 is Monday, 6 is Sunday.
Weekday(n) == (n + 6) % 7

RECURSIVE YearOf(_, _)
YearOf(n, y) == IF DaysBeforeYear(y + 1) >= n THEN y ELSE YearOf(n, y + 1)

RECURSIVE MonthOf(_, _, _)
MonthOf(n, y, m) ==
    IF DaysBeforeYear(y) + DaysBeforeMonth(y, m + 1) >= n THEN m
    ELSE MonthOf(n, y, m + 1)

\* date.fromordinal(n) as [y, m, d]
YMD(n) ==
    LET y == YearOf(n, (n \div 366) + 1)
        m == MonthOf(n, y, 1)
    IN  [y |-> y, m |-> m, d |-> n - DaysBeforeYear(y) - DaysBeforeMonth(y, m)]

Pad2(n) == IF n < 10 THEN "0" \o ToString(n) ELSE ToString(n)

Pad4(n) ==
    IF n < 10 THEN "000" \o ToString(n)
    ELSE IF n < 100 THEN "00" \o ToString(n)
    ELSE IF n < 1000 THEN "0" \o ToString(n)
    ELSE ToString(n)

\* date.strftime("%Y-%m-%d")
strftime(n) ==
    LET p == YMD(n) IN Pad4(p.y) \o "-" \o Pad2(p.m) \o "-" \o Pad2(p.d)

\* date.replace(day=1)
FirstOfMonth(n) == LET p == YMD(n) IN Ordinal(p.y, p.m, 1)

-----------------------------------------------------------------------------
(* Regular expressions (Python's re: leftmost match, greedy with backtracking) *)

\* Pattern elements: a captured character class {lo,hi}, \s*, and an
\* alternation of literal strings (a one-way alternation is a literal).
ClassE(cls, lo, hi) == [k |-> "class", cls |-> cls, lo |-> lo, hi |-> hi, opts |-> <<>>]
WsE == [k |-> "ws", cls |-> "", lo |-> 0, hi |-> 0, opts |-> <<>>]
AltE(opts) == [k |-> "alt", cls |-> "", lo |-> 0, hi |-> 0, opts |-> opts]
LitE(s) == AltE(<<s>>)

NoMatch == [ok |-> FALSE, groups |-> <<>>, start |-> 0, end |-> 0]

InClass(c, cls) ==
    CASE cls = "digit" -> IsDigit(c)
      [] cls = "hangul" -> IsHangul(c)
      [] cls = "space" -> IsSpace(c)
      [] OTHER -> FALSE

RECURSIVE RunLen(_, _, _, _)
\* How many characters of the class follow position i, at most max.
RunLen(t, i, cls, max) ==
    IF max = 0 \/ i > Len(t) \/ ~InClass(t[i], cls) THEN 0
    ELSE 1 + RunLen(t, i + 1, cls, max - 1)

RECURSIVE MatchFrom(_, _, _, _)
RECURSIVE TryClass(_, _, _, _, _)
RECURSIVE TryWs(_, _, _, _, _)
RECURSIVE TryAlt(_, _, _, _, _)

\* The match of pat[j..] at position i of t that the backtracking search
\* finds first (end is the position after the match).
MatchFrom(pat, j, t, i) ==
    IF j > Len(pat) THEN [ok |-> TRUE, groups |-> <<>>, start |-> i, end |-> i]
    ELSE CASE pat[j].k = "class" ->
                TryClass(pat, j, t, i, RunLen(t, i, pat[j].cls, pat[j].hi))
           [] pat[j].k = "ws" ->
                TryWs(pat, j, t, i, RunLen(t, i, "space", Len(t)))
           [] OTHER -> TryAlt(pat, j, t, i, 1)

\* A greedy class: the longest run first, then shorter ones.
TryClass(pat, j, t, i, n) ==
    IF n < pat[j].lo THEN NoMatch
    ELSE LET r == MatchFrom(pat, j + 1, t, i + n)
         IN  IF r.ok
             THEN [ok |-> TRUE, groups |-> <<SubSeq(t, i, i + n - 1)>> \o r.groups,
                   start |-> i, end |-> r.end]
             ELSE TryClass(pat, j, t, i, n - 1)

TryWs(pat, j, t, i, n) ==
    IF n < 0 THEN NoMatch
    ELSE LET r == MatchFrom(pat, j + 1, t, i + n)
         IN  IF r.ok THEN [r EXCEPT !.start = i] ELSE TryWs(pat, j, t, i, n - 1)

\* Alternatives in the order written.
TryAlt(pat, j, t, i, a) ==
    IF a > Len(pat[j].opts) THEN NoMatch
    ELSE IF StartsAt(t, i, pat[j].opts[a])
         THEN LET r == MatchFrom(pat, j + 1, t, i + Len(pat[j].opts[a]))
              IN  IF r.ok THEN [r EXCEPT !.start = i]
                  ELSE TryAlt(pat, j, t, i, a + 1)
         ELSE TryAlt(pat, j, t, i, a + 1)

RECURSIVE SearchFrom(_, _, _)
\* pattern.search(t), starting the scan at position i.
SearchFrom(pat, t, i) ==
    IF i > Len(t) + 1 THEN NoMatch
    ELSE LET r == MatchFrom(pat, 1, t, i)
         IN  IF r.ok THEN r ELSE SearchFrom(pat, t, i + 1)

Search(pat, t) == SearchFrom(pat, t, 1)

RECURSIVE FindAllFrom(_, _, _)
\* re.findall(pat, t) for a pattern with one group: the group of every
\* non-overlapping match, left to right.
FindAllFrom(pat, t, i) ==
    LET r == SearchFrom(pat, t, i)
    IN  IF ~r.ok THEN <<>>
        ELSE <<r.groups[1]>> \o FindAllFrom(pat, t, IF r.end > r.start THEN r.end ELSE r.end + 1)

FindAll(pat, t) == FindAllFrom(pat, t, 1)

SeqToSet(s) == {s[i] : i \in 1..Len(s)}

-----------------------------------------------------------------------------
(* extract_customer_names *)

customer_pattern1 == <<ClassE("hangul", 2, 4), WsE, LitE(<<"go", "gaek">>)>>
customer_pattern2 == <<LitE(<<"go", "gaek">>), WsE, ClassE("hangul", 2, 4)>>
customer_pattern3 == <<ClassE("hangul", 2, 4), AltE(<< <<"nim">>, <<"ssi">> >>)>>
customer_pattern4 ==
    <<ClassE("hangul", 2, 4), AltE(<< <<"e", "ge">>, <<"wa">>, <<"gwa">> >>)>>

\* list(set(...)): the order of the list is the set's, so the value is a set.
extract_customer_names(text) ==
    LET all_matches == FindAll(customer_pattern1, text) \o FindAll(customer_pattern2, text)
                       \o FindAll(customer_pattern3, text) \o FindAll(customer_pattern4, text)
    IN  {name \in SeqToSet(all_matches) : 2 <= Len(name) /\ Len(name) <= 4}

-----------------------------------------------------------------------------
(* QueryAnalyzer *)

\* Optional[Dict]: None is the empty sequence, a value is a one-element one.
NoRange == <<>>
Range(start, end) == <<[start |-> start, end |-> end]>>

Punctuation == {"(", ")", "?", "!", ",", "."}

\* query.lower() with ( ) ? ! , . replaced by spaces, then ' '.join(split()).
Normalize(q) ==
    LET replaced == [i \in 1..Len(q) |->
                        IF LowerChar(q[i]) \in Punctuation THEN " " ELSE LowerChar(q[i])]
    IN  JoinWords(Split(replaced))

\* (\d{4})\s*nyeon\s*(\d{1,2})\s*wol\s*(\d{1,2})\s*il
date_pattern_ymd ==
    <<ClassE("digit", 4, 4), WsE, LitE(<<"nyeon">>), WsE, ClassE("digit", 1, 2), WsE,
      LitE(<<"wol">>), WsE, ClassE("digit", 1, 2), WsE, LitE(<<"il">>)>>
\* (\d{4})-(\d{1,2})-(\d{1,2})
date_pattern_iso ==
    <<ClassE("digit", 4, 4), LitE(<<"-">>), ClassE("digit", 1, 2), LitE(<<"-">>),
      ClassE("digit", 1, 2)>>
\* (\d{1,2})\s*wol\s*(\d{1,2})\s*il
date_pattern_md ==
    <<ClassE("digit", 1, 2), WsE, LitE(<<"wol">>), WsE, ClassE("digit", 1, 2), WsE,
      LitE(<<"il">>)>>

specific_date_patterns == <<date_pattern_ymd, date_pattern_iso, date_pattern_md>>

\* The alternatives of each relative pattern, one pattern per alternative.
this_week_pattern ==
    {<<LitE(<<"i", "beon">>), WsE, LitE(<<"ju">>)>>, <<LitE(<<"geum", "ju">>)>>}
last_week_pattern ==
    {<<LitE(<<"ji", "nan">>), WsE, LitE(<<"ju">>)>>,
     <<LitE(<<"jeo", "beon">>), WsE, LitE(<<"ju">>)>>, <<LitE(<<"jeon", "ju">>)>>}
this_month_pattern ==
    {<<LitE(<<"i", "beon">>), WsE, LitE(<<"dal">>)>>, <<LitE(<<"geum", "wol">>)>>,
     <<LitE(<<"i", "beon">>), WsE, LitE(<<"wol">>)>>}
last_month_pattern ==
    {<<LitE(<<"ji", "nan">>), WsE, LitE(<<"dal">>)>>, <<LitE(<<"jeon", "wol">>)>>,
     <<LitE(<<"ji", "nan">>), WsE, LitE(<<"wol">>)>>}

SearchAny(pats, t) == \E p \in pats : Search(p, t).ok

\* {"start": detected_date, "end": detected_date} for date(year, month, day),
\* NoRange when date() raises ValueError (`continue`).
DetectedDate(year, month, day) ==
    IF ValidYMD(year, month, day)
    THEN Range(Ordinal(year, month, day), Ordinal(year, month, day))
    ELSE NoRange

\* The date of a match: its three groups, or its two groups and the year of
\* base_date; NoRange when there is no match.
MatchedDate(match, base_date) ==
    IF ~match.ok THEN NoRange
    ELSE IF Len(match.groups) = 3
         THEN DetectedDate(DigitsValue(match.groups[1]), DigitsValue(match.groups[2]),
                           DigitsValue(match.groups[3]))
         ELSE DetectedDate(YMD(base_date).y, DigitsValue(match.groups[1]),
                           DigitsValue(match.groups[2]))

\* The date one explicit pattern yields, from its first match only.
SpecificDate(pat, t, base_date) == MatchedDate(Search(pat, t), base_date)

RECURSIVE FirstSpecificDate(_, _, _)
\* for pattern in specific_date_patterns: ... return / continue
FirstSpecificDate(i, t, base_date) ==
    IF i > Len(specific_date_patterns) THEN NoRange
    ELSE LET r == SpecificDate(specific_date_patterns[i], t, base_date)
         IN  IF r # NoRange THEN r ELSE FirstSpecificDate(i + 1, t, base_date)

\* This week counted from its Sunday: base_date.isoweekday() % 7 days back.
this_week_from_sunday(base_date) ==
    LET monday == base_date - (base_date % 7) + 1
    IN  Range(monday, monday + 4)

this_week_range(base_date) ==
    LET monday == base_date - Weekday(base_date)
    IN  Range(monday, monday + 4)

last_week_range(base_date) ==
    LET monday == base_date - Weekday(base_date)
        last_week_monday == monday - 7
    IN  Range(last_week_monday, last_week_monday + 4)

this_month_range(base_date) ==
    LET p == YMD(base_date)
        first_day == Ordinal(p.y, p.m, 1)
        last_day == IF p.m = 12 THEN Ordinal(p.y + 1, 1, 1) - 1
                    ELSE Ordinal(p.y, p.m + 1, 1) - 1
    IN  Range(first_day, last_day)

last_month_range(base_date) ==
    LET p == YMD(base_date)
        last_month == IF p.m = 1 THEN Ordinal(p.y - 1, 12, 1)
                      ELSE Ordinal(p.y, p.m - 1, 1)
        first_day == FirstOfMonth(last_month)
        last_day == Ordinal(p.y, p.m, 1) - 1
    IN  Range(first_day, last_day)

\* _detect_date_range from query_normalized on.
DetectNormalized(query_normalized, base_date) ==
    IF FirstSpecificDate(1, query_normalized, base_date) # NoRange
    THEN FirstSpecificDate(1, query_normalized, base_date)
    ELSE IF SearchAny(this_week_pattern, query_normalized)
         THEN this_week_range(base_date)
    ELSE IF SearchAny(last_week_pattern, query_normalized)
         THEN last_week_range(base_date)
    ELSE IF SearchAny(this_month_pattern, query_normalized)
         THEN this_month_range(base_date)
    ELSE IF SearchAny(last_month_pattern, query_normalized)
         THEN last_month_range(base_date)
    ELSE NoRange

\* QueryAnalyzer._detect_date_range
detect_date_range(q, base_date) == DetectNormalized(Normalize(q), base_date)

pending_keywords ==
    {<<"mi", "jong", "gyeol">>, <<"mi", "wan", "ryo">>, <<"cheo", "ri", " ", "mot", "han">>,
     <<"an", " ", "han">>, <<"an", "han">>}
summary_keywords == {<<"yo", "yak">>, <<"jeon", "che">>, <<"jong", "hap">>}
plan_keywords == {<<"gye", "hoek">>, <<"ye", "jeong">>, <<"il", "jeong">>}

\* QueryAnalyzer._detect_chunk_types
detect_chunk_types(q) ==
    LET query_lower == Lower(q)
    IN  IF ContainsAny(query_lower, pending_keywords) THEN <<"pending">>
        ELSE IF ContainsAny(query_lower, summary_keywords) THEN <<"summary">>
        ELSE IF ContainsAny(query_lower, plan_keywords) THEN <<"plan_note">>
        ELSE <<"detail", "pending", "plan_note">>

unresolved_keywords ==
    pending_keywords \cup {<<"an", " ", "kkeut", "nan">>, <<"an", "kkeut", "nan">>}

\* QueryAnalyzer._is_unresolved_query
is_unresolved_query(q) == ContainsAny(Lower(q), unresolved_keywords)

analyzer_statistical_keywords ==
    {<<"ga", "jang">>, <<"manh", "i">>, <<"mol", "rin">>, <<"yo", "il">>, <<"nal", "jja">>,
     <<"tong", "gye">>, <<"pyeong", "gyun">>, <<"choe", "dae">>, <<"choe", "so">>,
     <<"jip", "gye">>, <<"bun", "po">>}

\* QueryAnalyzer._is_statistical_query
is_statistical_query(q) == ContainsAny(Lower(q), analyzer_statistical_keywords)

analyzer_comparison_keywords ==
    {<<"bi", "gyo">>, <<"bi", "yul">>, <<"cha", "i">>, <<"byeon", "hwa">>, <<"jeung", "ga">>,
     <<"gam", "so">>, <<"neul", "eo">>, <<"jul", "eo">>, <<"dae", "bi">>, <<"dae", "jo">>,
     <<"v", "s">>, <<"v", "e", "r", "s", "u", "s">>}

\* QueryAnalyzer._is_comparison_query
is_comparison_query(q) == ContainsAny(Lower(q), analyzer_comparison_keywords)

\* `date_range and date_range["start"] == date_range["end"]`
IsSingleDay(date_range) ==
    date_range # NoRange /\ date_range[1].start = date_range[1].end

\* The SearchKeywords with date_range left as detected beside single_date.
KeywordsKeepingRange(customer_names, date_range, chunk_types, is_unresolved, is_statistical) ==
    [customer_names |-> customer_names,
     date_range |-> date_range,
     single_date |-> IF IsSingleDay(date_range) THEN strftime(date_range[1].start) ELSE None,
     chunk_types |-> chunk_types,
     is_unresolved_query |-> is_unresolved,
     is_statistical_query |-> is_statistical]

\* The SearchKeywords extract_keywords returns for what it detected.
KeywordsFor(customer_names, date_range, chunk_types, is_unresolved, is_statistical) ==
    [customer_names |-> customer_names,
     date_range |-> IF IsSingleDay(date_range) THEN NoRange ELSE date_range,
     single_date |-> IF IsSingleDay(date_range) THEN strftime(date_range[1].start) ELSE None,
     chunk_types |-> chunk_types,
     is_unresolved_query |-> is_unresolved,
     is_statistical_query |-> is_statistical]

\* QueryAnalyzer.extract_keywords
extract_keywords(q, base_date) ==
    KeywordsFor(extract_customer_names(q), detect_date_range(q, base_date),
                detect_chunk_types(q), is_unresolved_query(q), is_statistical_query(q))

-----------------------------------------------------------------------------
(* The vector index (a ChromaDB collection) and the embedding provider *)

D(y, m, d) == strftime(Ordinal(y, m, d))

\* The indexed chunks.  pos is the order of insertion, dist the distance
\* the index reports for the chunk, sim its cosine similarity to the query
\* in hundredths.
Chunks ==
    {[id |-> "c1", pos |-> 1, owner |-> "kim", date |-> D(2025, 11, 10), chunk_type |-> "detail",
      text |-> <<"ra", "yu", "ha", " ", "go", "gaek", " ", "sang", "dam">>,
      customer |-> <<"ra", "yu", "ha">>, category |-> <<"sang", "dam">>,
      doc_id |-> "d1110", report_type |-> "daily", level |-> "daily",
      dist |-> 2, sim |-> 80],
     [id |-> "c2", pos |-> 2, owner |-> "kim", date |-> D(2023, 10, 7), chunk_type |-> "detail",
      text |-> <<"ra", "yu", "ha", " ", "go", "gaek", " ", "bo", "jang">>,
      customer |-> <<"ra", "yu", "ha">>, category |-> <<"bo", "jang">>,
      doc_id |-> "d1007", report_type |-> "daily", level |-> "daily",
      dist |-> 1, sim |-> 90],
     [id |-> "c3", pos |-> 3, owner |-> "kim", date |-> D(2025, 11, 4), chunk_type |-> "pending",
      text |-> <<"kim", "min", "seo", " ", "ja", "ryo", " ", "jeon", "dal">>,
      customer |-> <<>>, category |-> <<>>,
      doc_id |-> "d1104", report_type |-> "daily", level |-> "daily",
      dist |-> 3, sim |-> 70],
     [id |-> "c4", pos |-> 4, owner |-> "kim", date |-> D(2025, 11, 5), chunk_type |-> "detail",
      text |-> <<"kim", "min", "seo", " ", "ja", "ryo", " ", "jeon", "dal", " ", "wan", "ryo">>,
      customer |-> <<>>, category |-> <<"eop", "mu">>,
      doc_id |-> "d1105", report_type |-> "daily", level |-> "daily",
      dist |-> 5, sim |-> 50],
     [id |-> "c5", pos |-> 5, owner |-> "lee", date |-> D(2025, 11, 10), chunk_type |-> "detail",
      text |-> <<"ra", "yu", "ha", " ", "go", "gaek", " ", "sang", "dam">>,
      customer |-> <<"ra", "yu", "ha">>, category |-> <<"sang", "dam">>,
      doc_id |-> "e1110", report_type |-> "daily", level |-> "daily",
      dist |-> 0, sim |-> 100],
     [id |-> "c6", pos |-> 6, owner |-> "kim", date |-> D(2025, 11, 10), chunk_type |-> "plan_note",
      text |-> <<"eop", "mu", " ", "gye", "hoek">>,
      customer |-> <<>>, category |-> <<>>,
      doc_id |-> "d1110", report_type |-> "daily", level |-> "daily",
      dist |-> 4, sim |-> 60],
     [id |-> "c7", pos |-> 7, owner |-> "kim", date |-> D(2025, 11, 6), chunk_type |-> "pending",
      text |-> <<"sang", "dam", " ", "ja", "ryo", " ", "jeong", "ri">>,
      customer |-> <<>>, category |-> <<>>,
      doc_id |-> "d1106", report_type |-> "daily", level |-> "daily",
      dist |-> 7, sim |-> 40],
     [id |-> "c8", pos |-> 8, owner |-> "kim", date |-> D(2025, 11, 3), chunk_type |-> "pending",
      text |-> <<"bo", "jang", " ", "seol", "gye">>,
      customer |-> <<>>, category |-> <<>>,
      doc_id |-> "d1103", report_type |-> "daily", level |-> "daily",
      dist |-> 6, sim |-> 30],
     [id |-> "c9", pos |-> 9, owner |-> "kim", date |-> D(2025, 11, 4), chunk_type |-> "detail",
      text |-> <<"bo", "jang", " ", "an", "nae">>,
      customer |-> <<>>, category |-> <<"bo", "jang">>,
      doc_id |-> "d1104", report_type |-> "daily", level |-> "daily",
      dist |-> 8, sim |-> 20],
     [id |-> "c10", pos |-> 10, owner |-> "lee", date |-> "", chunk_type |-> "pending",
      text |-> <<"mi", "jong", "gyeol", " ", "gye", "yak">>,
      customer |-> <<>>, category |-> <<>>,
      doc_id |-> "e0000", report_type |-> "daily", level |-> "daily",
      dist |-> 9, sim |-> 10],
     [id |-> "c11", pos |-> 11, owner |-> "lee", date |-> "20251103", chunk_type |-> "pending",
      text |-> <<"eop", "mu", " ", "bo", "go">>,
      customer |-> <<>>, category |-> <<>>,
      doc_id |-> "e1103", report_type |-> "daily", level |-> "daily",
      dist |-> 10, sim |-> 5],
     [id |-> "c12", pos |-> 12, owner |-> "choi", date |-> D(2025, 11, 6), chunk_type |-> "detail",
      text |-> <<"je", "an", " ", "jak", "seong">>,
      customer |-> <<>>, category |-> <<"eop", "mu">>,
      doc_id |-> "p1106", report_type |-> "daily", level |-> "daily",
      dist |-> 11, sim |-> 4],
     [id |-> "c13", pos |-> 13, owner |-> "choi", date |-> D(2025, 11, 6), chunk_type |-> "detail",
      text |-> <<"pyeong", "ga", " ", "jak", "seong">>,
      customer |-> <<>>, category |-> <<"eop", "mu">>,
      doc_id |-> "p1106", report_type |-> "daily", level |-> "daily",
      dist |-> 12, sim |-> 3]}

\* A where filter is the list of conditions under "$and"; a condition is
\* {field: value} (op "eq") or {field: {"$in": values}} (op "in"; "inset"
\* when the list was made from a set and has no order of its own).
Eq(f, v) == [f |-> f, op |-> "eq", v |-> <<v>>]
In(f, vs) == [f |-> f, op |-> "in", v |-> vs]
InSet(f, vs) == [f |-> f, op |-> "inset", v |-> <<vs>>]

CondHolds(cond, c) ==
    CASE cond.op = "eq" -> c[cond.f] = cond.v[1]
      [] cond.op = "inset" -> c[cond.f] \in cond.v[1]
      [] OTHER -> c[cond.f] \in SeqToSet(cond.v)

Matches(where, c) == \A i \in 1..Len(where) : CondHolds(where[i], c)

HasClause(where, f) == \E i \in 1..Len(where) : where[i].f = f

RECURSIVE ByPos(_)
\* collection.get returns the chunks in the order of insertion.
ByPos(S) ==
    IF S = {} THEN <<>>
    ELSE LET first == CHOOSE c \in S : \A o \in S : c.pos <= o.pos
         IN  <<first>> \o ByPos(S \ {first})

RECURSIVE ByDist(_)
\* collection.query returns the nearest chunks first.
ByDist(S) ==
    IF S = {} THEN <<>>
    ELSE LET first == CHOOSE c \in S : \A o \in S : c.dist <= o.dist
         IN  <<first>> \o ByDist(S \ {first})

Take(s, n) == SubSeq(s, 1, IF n < Len(s) THEN n ELSE Len(s))

\* collection.get(where=..., limit=...)
IndexGet(where, limit) == Take(ByPos({c \in Chunks : Matches(where, c)}), limit)

\* collection.get(ids=...)
IndexGetIds(ids) == ByPos({c \in Chunks : c.id \in ids})

\* collection.query(query_embeddings=[e], n_results=n, where=...)
IndexQuery(where, n) == Take(ByDist({c \in Chunks : Matches(where, c)}), n)

\* `not results or not results.get('ids') or len(results['ids'][0]) == 0`;
\* a query that raised leaves results = None.
NoResponse == [ok |-> FALSE, rows |-> <<>>]
Response(rows) == [ok |-> TRUE, rows |-> rows]
\* The test that takes every response for an empty one.
IsAlwaysEmpty(r) == TRUE

IsEmptyResponse(r) == ~r.ok \/ Len(r.rows) = 0

-----------------------------------------------------------------------------
(* KeywordFilter *)

\* What date.today() returns while the model runs.
Today == Ordinal(2025, 11, 12)

\* timedelta(days=365) of the default window
DefaultWindowDays == 365

\* The dates from start to end inclusive, formatted (the while loop).
DateList(start, end) ==
    IF end < start THEN <<>>
    ELSE [i \in 1..(end - start + 1) |-> strftime(start + i - 1)]

default_date_list == DateList(Today - DefaultWindowDays, Today)

base_conditions ==
    <<In("report_type", <<"daily", "weekly", "monthly">>), Eq("level", "daily")>>

\* The date condition of build_where_filter, as a list of zero or one condition.
DateConditions(kw, base_date_range) ==
    LET date_range == IF kw.date_range # NoRange THEN kw.date_range ELSE base_date_range
    IN  IF kw.single_date # None /\ kw.single_date # ""
        THEN <<Eq("date", kw.single_date)>>
        ELSE IF date_range # NoRange
             THEN LET date_list == DateList(date_range[1].start, date_range[1].end)
                  IN  IF date_list # <<>> THEN <<In("date", date_list)>> ELSE <<>>
             ELSE IF default_date_list # <<>>
                  THEN <<In("date", default_date_list)>> ELSE <<>>

\* KeywordFilter.build_where_filter
build_where_filter(kw, owner_, base_date_range) ==
    base_conditions
    \o (IF owner_ # "" THEN <<Eq("owner", owner_)>> ELSE <<>>)
    \o DateConditions(kw, base_date_range)
    \o (IF kw.chunk_types # <<>> THEN <<In("chunk_type", kw.chunk_types)>> ELSE <<>>)

\* SearchKeywords(chunk_types=chunk_types): every other field at its default.
DefaultKeywords(chunk_types) ==
    [customer_names |-> {}, date_range |-> NoRange, single_date |-> None,
     chunk_types |-> chunk_types, is_unresolved_query |-> FALSE,
     is_statistical_query |-> FALSE]

-----------------------------------------------------------------------------
(* HybridSearcher.search: the filters it builds *)

\* effective_date_range = None if keywords.customer_names else base_date_range
effective_date_range(kw, base_date_range) ==
    IF kw.customer_names # {} THEN NoRange ELSE base_date_range

\* where_filter: the full predicate
full_filter(kw, owner_, base_date_range) ==
    build_where_filter(kw, owner_, effective_date_range(kw, base_date_range))

\* simplified_filter: the first relaxed predicate
simplified_filter(kw, owner_) ==
    build_where_filter(DefaultKeywords(kw.chunk_types), owner_, NoRange)

\* The minimal predicate without the owner condition.
minimal_filter_any_owner(owner_) == base_conditions

\* minimal_filter: the second relaxed predicate
minimal_filter(owner_) ==
    base_conditions \o (IF owner_ # "" THEN <<Eq("owner", owner_)>> ELSE <<>>)

\* base_filter of the entity direct lookup
lookup_filter(kw, owner_) ==
    base_conditions
    \o (IF owner_ # "" THEN <<Eq("owner", owner_)>> ELSE <<>>)
    \o (IF kw.chunk_types # <<>> THEN <<In("chunk_type", kw.chunk_types)>> ELSE <<>>)

\* excluded_words of the direct lookup and of the entity reordering
excluded_words ==
    {<<"sang", "dam">>, <<"bo", "jang">>, <<"ri", "po", "teu">>, <<"ja", "ryo">>,
     <<"jeong", "ri">>, <<"gu", "seong">>, <<"jak", "seong">>, <<"bun", "seok">>,
     <<"eop", "mu">>, <<"il", "jeong">>, <<"gye", "hoek">>}

\* excluded_words of the entity filter (step 4)
excluded_words_filter ==
    excluded_words \cup
    {<<"sang", "dam", "han">>, <<"sang", "dam", "haess">>, <<"sang", "dam", "hal">>,
     <<"sang", "dam", "ha">>, <<"ppop", "a", "jwo">>, <<"ppop", "a">>, <<"nal", "jja">>,
     <<"da">>, <<"jeon", "bu">>, <<"mo", "du">>}

actual_customer_names(kw) == kw.customer_names \ excluded_words

\* The chunks of the direct lookup whose "customer text" holds a name.
lookup_matches(kw, rows) ==
    {rows[i].id : i \in {j \in 1..Len(rows) :
        ContainsAny(Lower(rows[j].customer \o <<" ">> \o rows[j].text),
                    actual_customer_names(kw))}}

\* n_results_for_query = max(top_k * 50 if customer_names else top_k * 5, 500)
n_results_for_query(kw, k) ==
    LET n == IF kw.customer_names # {} THEN k * 50 ELSE k * 5
    IN  IF n > 500 THEN n ELSE 500

-----------------------------------------------------------------------------
(* HybridSearcher.search: results, reordering and the top-k cutoff *)

\* A score is the rational num/den with den > 0.
ScoreGE(a, b) == a.num * b.den >= b.num * a.den

\* UnifiedSearchResult; metadata is the chunk's metadata, passed through.
Result(c, score) ==
    [chunk_id |-> c.id, doc_id |-> c.doc_id, chunk_type |-> c.chunk_type,
     text |-> c.text, score |-> score, metadata |-> c]

\* score = 1.0 / (1.0 + distance)
DistanceScore(c) == [num |-> 1, den |-> 1 + c.dist]

\* score = float(cosine similarity)
CosineScore(c) == [num |-> c.sim, den |-> 100]

RECURSIVE InsertDesc(_, _)
\* r placed after every element whose score is at least r's.
InsertDesc(sorted, r) ==
    IF sorted = <<>> THEN <<r>>
    ELSE IF ScoreGE(sorted[1].score, r.score)
         THEN <<sorted[1]>> \o InsertDesc(Tail(sorted), r)
         ELSE <<r>> \o sorted

RECURSIVE SortDescFrom(_, _, _)
SortDescFrom(rs, i, acc) ==
    IF i > Len(rs) THEN acc ELSE SortDescFrom(rs, i + 1, InsertDesc(acc, rs[i]))

\* list.sort(key=lambda r: -r.score): stable, highest score first.
SortDesc(rs) == SortDescFrom(rs, 1, <<>>)

\* The rows of a query response as results.
ConvertRows(rows) == [i \in 1..Len(rows) |-> Result(rows[i], DistanceScore(rows[i]))]

\* The rows of the direct lookup as results, by similarity.
DirectResults(rows) ==
    SortDesc([i \in 1..Len(rows) |-> Result(rows[i], CosineScore(rows[i]))])

\* customer_name in text_lower or customer_name in metadata_customer
NameMatches(r, names) ==
    \/ ContainsAny(Lower(r.text), names)
    \/ ContainsAny(Lower(r.metadata.customer), names)

\* Step 4: the strict entity filter.
customer_filter(rs, kw) ==
    LET actual == kw.customer_names \ excluded_words_filter
        IsIn(r) == NameMatches(r, actual)
        IsPartial(r) == ContainsAny(Lower(r.text), actual)
        IsOther(r) == ~IsPartial(r)
        filtered_by_customer == SelectSeq(rs, IsIn)
    IN  IF kw.customer_names = {} \/ Len(rs) = 0 \/ actual = {} THEN rs
        ELSE IF Len(filtered_by_customer) > 0 THEN filtered_by_customer
        ELSE SelectSeq(rs, IsPartial) \o SelectSeq(rs, IsOther)

\* Step 5, first half: matched results first, each part by score.
customer_boost(rs, kw) ==
    LET actual == actual_customer_names(kw)
        IsMatched(r) == NameMatches(r, actual)
        IsUnmatched(r) == ~IsMatched(r)
    IN  IF kw.customer_names = {} \/ actual = {} THEN rs
        ELSE SortDesc(SelectSeq(rs, IsMatched)) \o SortDesc(SelectSeq(rs, IsUnmatched))

\* Steps 4 and 5 up to `search_results.sort(key=lambda r: -r.score)`.
entity_rerank(rs, kw) == SortDesc(customer_boost(customer_filter(rs, kw), kw))

stop_words ==
    {<<"eon", "je">>, <<"haess", "eoss">>, <<"haess", "ji">>, <<"haess", "eo">>,
     <<"haess", "neun">>, <<"haess", "deon">>, <<"choe", "geun">>, <<"na">>, <<"nae">>,
     <<"neun">>, <<"eun">>, <<"i">>, <<"ga">>, <<"eul">>, <<"reul">>, <<"ui">>, <<"e">>,
     <<"e", "seo">>, <<"ro">>, <<"eu", "ro">>, <<"go", "gaek">>, <<"haess">>,
     <<"haess", "neun", "ji">>, <<"haess", "eoss", "ji">>, <<"haess", "eoss", "eo">>,
     <<"haess", "eoss", "neun">>, <<"haess", "eoss", "deon">>}

\* [word for word in query.split() if len(word) >= 2 and word not in stop_words]
meaningful_keywords(q) ==
    LET IsMeaningful(w) == Len(w) >= 2 /\ w \notin stop_words
    IN  SelectSeq(Split(q), IsMeaningful)

\* Step 6 without the two groups: the results by score alone.
keyword_boost_by_score(rs, q) == SortDesc(rs)

\* Step 6: results holding a query keyword first, each part by score.
keyword_boost(rs, q) ==
    LET kws == {Lower(w) : w \in SeqToSet(meaningful_keywords(q))}
        HasKeyword(r) == ContainsAny(Lower(r.text), kws)
        HasNoKeyword(r) == ~HasKeyword(r)
    IN  IF meaningful_keywords(q) = <<>> THEN rs
        ELSE SortDesc(SelectSeq(rs, HasKeyword)) \o SortDesc(SelectSeq(rs, HasNoKeyword))

all_date_keywords ==
    {<<"da">>, <<"mo", "du">>, <<"jeon", "bu">>, <<"jeon", "che">>, <<"mo", "deun">>,
     <<"il", "che">>, <<"jeon", "che", "da">>, <<"da", "al", "ryeo", "jwo">>,
     <<"da", "al", "ryeo">>, <<"jeon", "bu", "al", "ryeo", "jwo">>, <<"al", "ryeo", "jwo">>}

search_comparison_keywords ==
    {<<"bi", "gyo">>, <<"bi", "yul">>, <<"cha", "i">>, <<"byeon", "hwa">>, <<"jeung", "ga">>,
     <<"gam", "so">>, <<"neul", "eo">>, <<"jul", "eo">>, <<"dae", "bi">>, <<"dae", "jo">>}

search_statistical_keywords ==
    {<<"ga", "jang">>, <<"manh", "i">>, <<"mol", "rin">>, <<"manh", "eun">>,
     <<"tong", "gye">>, <<"jip", "gye">>, <<"geon", "su">>}

\* requires_all_data of step 7
search_requires_all_data(kw, q) ==
    \/ ContainsAny(Lower(q), search_comparison_keywords)
    \/ ContainsAny(Lower(q), search_statistical_keywords)
    \/ kw.is_statistical_query

\* Step 7: whether search returns every result instead of the first top_k.
bypasses_top_k(kw, q) ==
    \/ kw.customer_names # {}
    \/ search_requires_all_data(kw, q)
    \/ ContainsAny(Lower(q), all_date_keywords)

\* Step 7 without the cutoff.
apply_no_top_k(rs, kw, q, k) == rs

\* Step 7: final_results
apply_top_k(rs, kw, q, k) == IF bypasses_top_k(kw, q) THEN rs ELSE Take(rs, k)

\* Steps 3 to 7 of search: what it returns for the rows of the index's response.
rank_results(rows, kw, q, k) ==
    LET converted == ConvertRows(rows)
        by_score == entity_rerank(converted, kw)
        by_keyword == keyword_boost(by_score, q)
    IN  apply_top_k(by_keyword, kw, q, k)

-----------------------------------------------------------------------------
(* ReportRAGChain and UnifiedRetriever *)

rag_statistical_keywords ==
    {<<"ga", "jang">>, <<"manh", "i">>, <<"mol", "rin">>, <<"manh", "eun">>,
     <<"jeok", "eun">>, <<"jeok", "ge">>, <<"yo", "il">>, <<"nal", "jja">>, <<"nal">>,
     <<"eon", "je">>, <<"eo", "neu">>, <<"c", "o", "u", "n", "t">>, <<"tong", "gye">>,
     <<"jip", "gye">>, <<"bun", "po">>}

rag_comparison_keywords ==
    search_comparison_keywords \cup
    {<<"dae", "hae">>, <<"v", "s">>, <<"v", "e", "r", "s", "u", "s">>}

\* ReportRAGChain._is_statistical_query
rag_is_statistical_query(q) == ContainsAny(Lower(q), rag_statistical_keywords)

\* ReportRAGChain._is_comparison_query
rag_is_comparison_query(q) == ContainsAny(Lower(q), rag_comparison_keywords)

\* requires_all_data of retrieve
rag_requires_all_data(q) == rag_is_comparison_query(q) \/ rag_is_statistical_query(q)

\* The search_top_k of retrieve for all-data queries
AllDataTopK == 10000

\* search_top_k of retrieve
search_top_k(kw, q, k) ==
    IF kw.customer_names # {} THEN k * 2
    ELSE IF rag_requires_all_data(q) THEN AllDataTopK
    ELSE k

\* Step 4 of retrieve: final_results
retrieve_top_k(rs, q, k) == IF rag_requires_all_data(q) THEN rs ELSE Take(rs, k)

\* `if date_range: keywords.date_range = date_range; keywords.single_date = None`
OverwriteDateRange(kw, date_range) ==
    IF date_range # NoRange
    THEN [kw EXCEPT !.date_range = date_range, !.single_date = None]
    ELSE kw

\* retrieve: the keywords of the call.
retrieve_keywords(q, base_date, date_range) ==
    OverwriteDateRange(extract_keywords(q, base_date), date_range)

\* The dates strptime is asked to parse lie in this window.
DateUniverse == (Today - 800)..(Today + 7)

iso_of == [n \in DateUniverse |-> strftime(n)]

\* ReportRAGChain._parse_date_from_metadata: the date, or 0 for None.
parse_date_from_metadata(metadata) ==
    IF metadata.date = "" THEN 0
    ELSE IF \E n \in DateUniverse : iso_of[n] = metadata.date
         THEN CHOOSE n \in DateUniverse : iso_of[n] = metadata.date
         ELSE 0

\* A lookup of the documents that leaves the date clause out.
doc_ids_filter_any_date(start_date, end_date, owner_) ==
    base_conditions \o (IF owner_ # "" THEN <<Eq("owner", owner_)>> ELSE <<>>)

\* The where filter of _get_document_ids_in_range
doc_ids_filter(start_date, end_date, owner_) ==
    base_conditions \o <<In("date", DateList(start_date, end_date))>>
    \o (IF owner_ # "" THEN <<Eq("owner", owner_)>> ELSE <<>>)

\* The doc_ids _get_document_ids_in_range extracts from the rows it fetched.
doc_ids_of(rows) == {rows[i].doc_id : i \in {j \in 1..Len(rows) : rows[j].doc_id # ""}}

\* The where filter of UnifiedRetriever.search_daily (week is not passed).
search_daily_filter(owner_, single_date, chunk_types, doc_ids) ==
    <<In("report_type", <<"daily", "weekly", "monthly">>)>>
    \o (IF doc_ids # {} THEN <<InSet("doc_id", doc_ids)>> ELSE <<>>)
    \o (IF chunk_types # <<>> THEN <<In("chunk_type", chunk_types)>> ELSE <<>>)
    \o (IF owner_ # "" THEN <<Eq("owner", owner_)>> ELSE <<>>)
    \o <<Eq("level", "daily")>>
    \o (IF doc_ids = {} /\ single_date # None THEN <<Eq("date", single_date)>> ELSE <<>>)

\* The words of a text: set(text.lower().split())
Words(t) == SeqToSet(Split(Lower(t)))

\* The overlap test with "at least half" in place of "more than half".
overlaps_at_least_half(issue_text, task_text) ==
    /\ Words(issue_text) # {}
    /\ Words(task_text) # {}
    /\ 2 * Cardinality(Words(issue_text) \cap Words(task_text)) >= Cardinality(Words(issue_text))

\* overlap > 0.5 for one next-day task
overlaps(issue_text, task_text) ==
    LET issue_words == Words(issue_text)
        task_words == Words(task_text)
    IN  /\ issue_words # {}
        /\ task_words # {}
        /\ 2 * Cardinality(issue_words \cap task_words) > Cardinality(issue_words)

\* is_completed after the loop over next_day_tasks
is_completed(issue, next_day_tasks) ==
    \E i \in 1..Len(next_day_tasks) : overlaps(issue.text, next_day_tasks[i].text)

-----------------------------------------------------------------------------
(* The questions asked *)

\* The text of a word of a question.
WordText(w) ==
    CASE w = "rayuha" -> <<"ra", "yu", "ha">>
      [] w = "nojiyu" -> <<"no", "ji", "yu">>
      [] w = "customer" -> <<"go", "gaek">>
      [] w = "consult" -> <<"sang", "dam">>
      [] w = "history" -> <<"nae", "yeok">>
      [] w = "work" -> <<"eop", "mu">>
      [] w = "tell" -> <<"al", "ryeo", "jwo">>
      [] w = "most" -> <<"ga", "jang">>
      [] w = "many" -> <<"manh", "eun">>
      [] w = "day" -> <<"nal">>
      [] w = "average" -> <<"pyeong", "gyun">>
      [] w = "count" -> <<"geon", "su">>
      [] w = "VS" -> <<"V", "S">>
      [] w = "guarantee" -> <<"bo", "jang">>
      [] w = "unresolved" -> <<"mi", "jong", "gyeol">>
      [] w = "unfinished" -> <<"an", "kkeut", "nan">>
      [] w = "old_date" ->
            <<"2", "0", "2", "3", "nyeon", " ", "1", "0", "wol", " ", "7", "il">>
      [] w = "ymd_feb29" ->
            <<"2", "0", "2", "3", "nyeon", " ", "2", "wol", " ", "2", "9", "il">>
      [] w = "iso_ok" -> <<"2", "0", "2", "5", "-", "1", "0", "-", "0", "7">>
      [] w = "iso_bad" -> <<"2", "0", "2", "5", "-", "1", "3", "-", "4", "5">>
      [] w = "this_week" -> <<"i", "beon", " ", "ju">>
      [] w = "last_week" -> <<"ji", "nan", "ju">>
      [] w = "this_month" -> <<"i", "beon", " ", "dal">>
      [] OTHER -> <<"ji", "nan", "dal">>

\* The question made of the words ws, separated by spaces.
TextOf(ws) == JoinWords([i \in 1..Len(ws) |-> WordText(ws[i])])

\* The questions put to ReportRAGChain.retrieve.
Questions ==
    {<<"rayuha", "customer", "consult", "history">>,
     <<"nojiyu", "customer", "consult">>,
     <<"old_date", "rayuha", "customer">>,
     <<"work", "history">>,
     <<"work", "tell">>,
     <<"consult", "most", "many", "day">>,
     <<"consult", "average">>,
     <<"consult", "count">>,
     <<"consult", "VS", "guarantee">>,
     <<"old_date", "work">>,
     <<"last_week", "unresolved", "work">>,
     <<"unfinished", "work">>}

\* The owners a chain is built for; "" is owner=None.
Owners == {"", "kim", "lee", "park"}

\* The date_range arguments of retrieve.
DateRangeArgs == {NoRange, Range(Ordinal(2025, 11, 1), Ordinal(2025, 11, 30))}

\* The words of the questions put to QueryAnalyzer alone.
DateWords ==
    {"iso_ok", "iso_bad", "ymd_feb29", "this_week", "last_week", "this_month",
     "last_month", "work"}

\* The base dates: a Monday, a Wednesday, a Saturday and a Sunday of 2025, and
\* a Sunday of the leap year 2024.
BaseDates ==
    {Ordinal(2025, 11, 10), Today, Ordinal(2025, 11, 15), Ordinal(2025, 11, 16),
     Ordinal(2024, 3, 3)}

\* Largest top_k a chain is built with.
MaxTopK == 2

\* Most failures of the index and of the embedding provider in one call.
MaxFaults == 1

\* Most words of a question put to QueryAnalyzer alone.
MaxTokens == 3

-----------------------------------------------------------------------------
(* ReportRAGChain.retrieve, step by step *)

\* A request to the index and a call to the provider, as logged.
Call(op, site, where, n, ok) ==
    [op |-> op, site |-> site, where |-> where, n |-> n, ok |-> ok]
Embedding(site, text, ok) == [site |-> site, text |-> text, ok |-> ok]

\* What the caller of retrieve receives.
NotReturned == [kind |-> "pending", value |-> <<>>]
Raised == [kind |-> "raised", value |-> <<>>]
Returned(rs) == [kind |-> "list", value |-> rs]

\* An external call may fail while the call has failures left.
MayFail(ok) == ok \/ Len(faults) < MaxFaults

\* The top_k retrieve passes to search, and search's n_results_for_query.
SearchTopK == search_top_k(keywords, query, top_k)
NResults == n_results_for_query(keywords, SearchTopK)

Init ==
    /\ tokens \in Questions
    /\ query = TextOf(tokens)
    /\ reference_date = Today
    /\ owner \in Owners
    /\ date_range_arg \in DateRangeArgs
    /\ top_k \in 1..MaxTopK
    /\ keywords = DefaultKeywords(<<>>)
    /\ pc = "retrieve"
    /\ sent = <<>>
    /\ embed_log = <<>>
    /\ faults = <<>>
    /\ matched_ids = {}
    /\ resp = NoResponse
    /\ results = <<>>
    /\ cursor = 0
    /\ kept = <<>>
    /\ ret = NotReturned

\* search returned rs to retrieve: step 3 starts, or step 4 ends the call.
SearchReturns(rs) ==
    /\ results' = rs
    /\ IF keywords.is_unresolved_query /\ rs # <<>>
       THEN /\ pc' = "filter"
            /\ cursor' = 1
            /\ kept' = <<>>
            /\ ret' = ret
       ELSE /\ pc' = "done"
            /\ ret' = Returned(retrieve_top_k(rs, query, top_k))
            /\ UNCHANGED <<cursor, kept>>

\* retrieve up to the call of search, and search up to the direct lookup.
Retrieve ==
    /\ pc = "retrieve"
    /\ keywords' = retrieve_keywords(query, reference_date, date_range_arg)
    /\ pc' = IF actual_customer_names(keywords') # {} THEN "lookup" ELSE "embed"
    /\ UNCHANGED <<tokens, query, reference_date, owner, date_range_arg, top_k, sent,
                   embed_log, faults, matched_ids, resp, results, cursor, kept, ret>>

\* The direct lookup of the entity names: collection.get under base_filter.
CustomerLookup ==
    /\ pc = "lookup"
    /\ \E ok \in BOOLEAN :
        /\ MayFail(ok)
        /\ sent' = Append(sent, Call("get", "lookup", lookup_filter(keywords, owner), 50000, ok))
        /\ matched_ids' =
               IF ok THEN lookup_matches(keywords, IndexGet(lookup_filter(keywords, owner), 50000))
               ELSE {}
        /\ faults' = IF ok THEN faults ELSE Append(faults, "lookup")
    /\ pc' = "embed"
    /\ UNCHANGED <<tokens, query, reference_date, owner, date_range_arg, top_k, keywords,
                   embed_log, resp, results, cursor, kept, ret>>

\* query_embedding = self.embedding_service.embed_text(query), outside any try.
EmbedQuery ==
    /\ pc = "embed"
    /\ \E ok \in BOOLEAN :
        /\ MayFail(ok)
        /\ embed_log' = Append(embed_log, Embedding("main", query, ok))
        /\ faults' = IF ok THEN faults ELSE Append(faults, "embed")
        /\ pc' = IF ~ok THEN "done" ELSE IF matched_ids # {} THEN "direct" ELSE "query1"
        /\ ret' = IF ok THEN ret ELSE Raised
    /\ UNCHANGED <<tokens, query, reference_date, owner, date_range_arg, top_k, keywords,
                   sent, matched_ids, resp, results, cursor, kept>>

\* collection.get(ids=list(customer_matched_chunk_ids)) inside the try.
DirectFetch ==
    /\ pc = "direct"
    /\ \E ok \in BOOLEAN :
        /\ MayFail(ok)
        /\ sent' = Append(sent, Call("get", "direct", <<InSet("id", matched_ids)>>, 0, ok))
        /\ resp' = IF ok THEN Response(IndexGetIds(matched_ids)) ELSE NoResponse
        /\ matched_ids' = IF ok THEN matched_ids ELSE {}
        /\ faults' = IF ok THEN faults ELSE Append(faults, "direct")
        /\ pc' = IF ok THEN "direct_embed" ELSE "query1"
    /\ UNCHANGED <<tokens, query, reference_date, owner, date_range_arg, top_k, keywords,
                   embed_log, results, cursor, kept, ret>>

\* The second embed_text(query), inside the try; then the direct results
\* are returned, or the except clause empties them.
DirectEmbed ==
    /\ pc = "direct_embed"
    /\ \E ok \in BOOLEAN :
        /\ MayFail(ok)
        /\ embed_log' = Append(embed_log, Embedding("direct", query, ok))
        /\ faults' = IF ok THEN faults ELSE Append(faults, "direct_embed")
        /\ IF ok
           THEN /\ SearchReturns(DirectResults(resp.rows))
                /\ UNCHANGED <<matched_ids, resp>>
           ELSE /\ matched_ids' = {}
                /\ resp' = NoResponse
                /\ pc' = "query1"
                /\ UNCHANGED <<results, cursor, kept, ret>>
    /\ UNCHANGED <<tokens, query, reference_date, owner, date_range_arg, top_k, keywords,
                   sent>>

\* Steps 3 to 7 of search on the rows of the response, returned to retrieve.
RankAndReturn(rows) == SearchReturns(rank_results(rows, keywords, query, SearchTopK))

\* collection.query(query_embeddings=[query_embedding], n_results=n, where=where)
VectorQuery(site, where, n, ok) ==
    /\ MayFail(ok)
    /\ sent' = Append(sent, Call("query", site, where, n, ok))
    /\ faults' = IF ok THEN faults ELSE Append(faults, site)
    /\ resp' = IF ok THEN Response(IndexQuery(where, n)) ELSE NoResponse

\* The vector search under where_filter; an exception leaves results = None.
Query1 ==
    /\ pc = "query1"
    /\ \E ok \in BOOLEAN :
        /\ VectorQuery("full", full_filter(keywords, owner, date_range_arg), NResults, ok)
        /\ IF IsEmptyResponse(resp')
           THEN /\ pc' = "query2"
                /\ UNCHANGED <<results, cursor, kept, ret>>
           ELSE RankAndReturn(resp'.rows)
    /\ UNCHANGED <<tokens, query, reference_date, owner, date_range_arg, top_k, keywords,
                   embed_log, matched_ids>>

\* The first retry, under simplified_filter; an exception returns [].
Query2 ==
    /\ pc = "query2"
    /\ \E ok \in BOOLEAN :
        /\ VectorQuery("simplified", simplified_filter(keywords, owner), NResults * 2, ok)
        /\ IF ~ok THEN SearchReturns(<<>>)
           ELSE IF IsEmptyResponse(resp')
                THEN /\ pc' = "query3"
                     /\ UNCHANGED <<results, cursor, kept, ret>>
                ELSE RankAndReturn(resp'.rows)
    /\ UNCHANGED <<tokens, query, reference_date, owner, date_range_arg, top_k, keywords,
                   embed_log, matched_ids>>

\* The second retry, asked again while the index returns nothing.
Query3Again ==
    /\ pc = "query3"
    /\ \E ok \in BOOLEAN :
        /\ VectorQuery("minimal", minimal_filter(owner), NResults * 3, ok)
        /\ IF ~ok THEN SearchReturns(<<>>)
           ELSE IF IsEmptyResponse(resp')
                THEN UNCHANGED <<pc, results, cursor, kept, ret>>
                ELSE RankAndReturn(resp'.rows)
    /\ UNCHANGED <<tokens, query, reference_date, owner, date_range_arg, top_k, keywords,
                   embed_log, matched_ids>>

\* The second retry, under minimal_filter; an exception returns [].
Query3 ==
    /\ pc = "query3"
    /\ \E ok \in BOOLEAN :
        /\ VectorQuery("minimal", minimal_filter(owner), NResults * 3, ok)
        /\ IF ok THEN RankAndReturn(resp'.rows) ELSE SearchReturns(<<>>)
    /\ UNCHANGED <<tokens, query, reference_date, owner, date_range_arg, top_k, keywords,
                   embed_log, matched_ids>>

\* The failures of one round of the unresolved filter.
RoundFaults(get_ok, embed_ok, query_ok) ==
    (IF get_ok THEN <<>> ELSE <<"doc_ids">>)
    \o (IF embed_ok THEN <<>> ELSE <<"secondary_embed">>)
    \o (IF query_ok THEN <<>> ELSE <<"secondary_query">>)

\* A candidate without a parseable date is dropped.
DropUndated(issue) ==
    /\ kept' = kept
    /\ UNCHANGED <<sent, embed_log, faults>>

\* A candidate without a parseable date is kept; no call is made.
KeepUndated(issue) ==
    /\ kept' = Append(kept, issue)
    /\ UNCHANGED <<sent, embed_log, faults>>

\* search_daily and _execute_search under `where`, then the overlap test.
SecondarySearch(issue, get_where, where, get_ok, embed_ok, query_ok) ==
    /\ Len(faults) + Len(RoundFaults(get_ok, embed_ok, query_ok)) <= MaxFaults
    /\ ~embed_ok => query_ok
    /\ faults' = faults \o RoundFaults(get_ok, embed_ok, query_ok)
    /\ sent' = Append(sent, Call("get", "doc_ids", get_where, 10000, get_ok))
               \o (IF embed_ok THEN <<Call("query", "secondary", where, 10, query_ok)>>
                   ELSE <<>>)
    /\ embed_log' = Append(embed_log, Embedding("secondary", issue.text, embed_ok))
    /\ kept' = IF is_completed(issue, IF embed_ok /\ query_ok
                                      THEN ConvertRows(IndexQuery(where, 10)) ELSE <<>>)
               THEN kept ELSE Append(kept, issue)

\* _get_document_ids_in_range under get_where, then the secondary search.
NextDayLookup(issue, next_day, get_where, get_ok, embed_ok, query_ok) ==
    SecondarySearch(issue, get_where,
                    search_daily_filter(owner, strftime(next_day), <<"detail">>,
                        IF get_ok THEN doc_ids_of(IndexGet(get_where, 10000)) ELSE {}),
                    get_ok, embed_ok, query_ok)

\* The body of the loop for one issue_result.
FilterRound(issue, issue_date) ==
    IF issue_date = 0 THEN KeepUndated(issue)
    ELSE \E get_ok, embed_ok, query_ok \in BOOLEAN :
            NextDayLookup(issue, issue_date + 1,
                          doc_ids_filter(issue_date + 1, issue_date + 1, owner),
                          get_ok, embed_ok, query_ok)

\* One round of the loop of _filter_completed_unresolved_tasks; after the
\* last round retrieve applies step 4.
FilterCandidate ==
    /\ pc = "filter"
    /\ cursor <= Len(results)
    /\ FilterRound(results[cursor], parse_date_from_metadata(results[cursor].metadata))
    /\ cursor' = cursor + 1
    /\ IF cursor = Len(results)
       THEN /\ pc' = "done"
            /\ ret' = Returned(retrieve_top_k(kept', query, top_k))
       ELSE UNCHANGED <<pc, ret>>
    /\ UNCHANGED <<tokens, query, reference_date, owner, date_range_arg, top_k, keywords,
                   matched_ids, resp, results>>

Next ==
    \/ Retrieve
    \/ CustomerLookup
    \/ EmbedQuery
    \/ DirectFetch
    \/ DirectEmbed
    \/ Query1
    \/ Query2
    \/ Query3
    \/ FilterCandidate

Spec == Init /\ [][Next]_vars

-----------------------------------------------------------------------------
(* QueryAnalyzer.extract_keywords on its own *)

RECURSIVE WordLists(_)
\* The lists of at most n words.
WordLists(n) ==
    IF n = 0 THEN {<<>>}
    ELSE LET shorter == WordLists(n - 1)
         IN  shorter \cup {Append(ws, w) : ws \in shorter, w \in DateWords}

InitAnalyzer ==
    /\ tokens \in WordLists(MaxTokens)
    /\ query = TextOf(tokens)
    /\ reference_date \in BaseDates
    /\ owner = ""
    /\ date_range_arg = NoRange
    /\ top_k = 1
    /\ keywords = DefaultKeywords(<<>>)
    /\ pc = "analyze"
    /\ sent = <<>>
    /\ embed_log = <<>>
    /\ faults = <<>>
    /\ matched_ids = {}
    /\ resp = NoResponse
    /\ results = <<>>
    /\ cursor = 0
    /\ kept = <<>>
    /\ ret = NotReturned

\* keywords = QueryAnalyzer.extract_keywords(query, base_date)
Analyze ==
    /\ pc = "analyze"
    /\ keywords' = extract_keywords(query, reference_date)
    /\ pc' = "analyzed"
    /\ UNCHANGED <<tokens, query, reference_date, owner, date_range_arg, top_k, sent,
                   embed_log, faults, matched_ids, resp, results, cursor, kept, ret>>

SpecAnalyzer == InitAnalyzer /\ [][Analyze]_vars

-----------------------------------------------------------------------------
(* ReportRAGChain._collect_daily_counts on its own.  query holds
   category_keyword, date_range_arg the date_range, resp the detail chunks
   fetched, ret the dictionary returned. *)

\* The category keywords generate_response passes.
category_keywords == {<<"sang", "dam">>, <<"eop", "mu">>}

\* The date ranges the aggregator is called with.
CountRanges ==
    {Range(Ordinal(2025, 11, 3), Ordinal(2025, 11, 7)),
     Range(Ordinal(2025, 11, 10), Ordinal(2025, 11, 14)),
     Range(Ordinal(2025, 11, 1), Ordinal(2025, 11, 30)),
     Range(Ordinal(2025, 11, 4), Ordinal(2025, 11, 5)),
     Range(Ordinal(2025, 10, 1), Ordinal(2025, 10, 31)),
     Range(Ordinal(2023, 10, 1), Ordinal(2023, 10, 31))}

\* where_filter of the fetch of the detail chunks
count_fetch_filter(doc_ids, owner_) ==
    <<InSet("doc_id", doc_ids), Eq("chunk_type", "detail"),
      In("report_type", <<"daily", "weekly", "monthly">>), Eq("level", "daily")>>
    \o (IF owner_ # "" THEN <<Eq("owner", owner_)>> ELSE <<>>)

\* is_match: category_keyword in category or category_keyword in text_lower
is_match(row, category_keyword) ==
    Contains(row.category, category_keyword) \/ Contains(Lower(row.text), category_keyword)

\* date_counts[doc_date] = 1: the count of a date never grows.
IncrementOnce(date_counts, doc_date) ==
    IF \E i \in 1..Len(date_counts) : date_counts[i].date = doc_date
    THEN date_counts
    ELSE Append(date_counts, [date |-> doc_date, n |-> 1])

\* date_counts[doc_date] += 1 on a Counter kept in insertion order.
Increment(date_counts, doc_date) ==
    IF \E i \in 1..Len(date_counts) : date_counts[i].date = doc_date
    THEN [i \in 1..Len(date_counts) |->
             IF date_counts[i].date = doc_date
             THEN [date_counts[i] EXCEPT !.n = @ + 1] ELSE date_counts[i]]
    ELSE Append(date_counts, [date |-> doc_date, n |-> 1])

RECURSIVE CountFrom(_, _, _, _)
\* The loop over the fetched metadatas.
CountFrom(rows, i, category_keyword, date_counts) ==
    IF i > Len(rows) THEN date_counts
    ELSE CountFrom(rows, i + 1, category_keyword,
                   IF is_match(rows[i], category_keyword) /\ rows[i].date # ""
                   THEN Increment(date_counts, rows[i].date) ELSE date_counts)

\* details: one entry for each counted chunk
details_of(rows, category_keyword) ==
    LET IsCounted(row) == is_match(row, category_keyword) /\ row.date # ""
        counted == SelectSeq(rows, IsCounted)
    IN  [i \in 1..Len(counted) |->
            [date |-> counted[i].date, text |-> counted[i].text,
             category |-> counted[i].category]]

\* The entry of the date counted first.
first_counted(date_counts) == date_counts[1]

\* date_counts.most_common(1)[0]: the first inserted of the largest counts.
most_common(date_counts) ==
    date_counts[CHOOSE i \in 1..Len(date_counts) :
        /\ \A j \in 1..Len(date_counts) : date_counts[j].n <= date_counts[i].n
        /\ \A j \in 1..(i - 1) : date_counts[j].n < date_counts[i].n]

\* The dictionary returned when nothing was counted or a call failed.
NoStats == [date_counts |-> <<>>, max_date |-> None, max_count |-> 0, details |-> <<>>]

\* The dictionary returned for the counts date_counts and the details.
StatsFor(date_counts, details) ==
    IF date_counts = <<>> THEN [NoStats EXCEPT !.details = details]
    ELSE [date_counts |-> date_counts, max_date |-> most_common(date_counts).date,
          max_count |-> most_common(date_counts).n, details |-> details]

\* The dictionary returned for the rows fetched.
Stats(rows, category_keyword) ==
    StatsFor(CountFrom(rows, 1, category_keyword, <<>>), details_of(rows, category_keyword))

InitCounts ==
    /\ tokens = <<>>
    /\ query \in category_keywords
    /\ reference_date = Today
    /\ owner \in Owners
    /\ date_range_arg \in CountRanges
    /\ top_k = 1
    /\ keywords = DefaultKeywords(<<>>)
    /\ pc = "count"
    /\ sent = <<>>
    /\ embed_log = <<>>
    /\ faults = <<>>
    /\ matched_ids = {}
    /\ resp = NoResponse
    /\ results = <<>>
    /\ cursor = 0
    /\ kept = <<>>
    /\ ret = NotReturned

\* The fetch of the detail chunks of doc_ids and the counting.
CountFetch(lookup, doc_ids, ok) ==
    /\ MayFail(ok)
    /\ sent' = <<lookup, Call("get", "count_fetch", count_fetch_filter(doc_ids, owner), 10000, ok)>>
    /\ faults' = IF ok THEN faults ELSE <<"count_fetch">>
    /\ resp' = IF ok THEN Response(IndexGet(count_fetch_filter(doc_ids, owner), 10000))
               ELSE NoResponse
    /\ ret' = [kind |-> "stats", value |-> IF ok THEN Stats(resp'.rows, query) ELSE NoStats]

\* _collect_daily_counts after _get_document_ids_in_range returned doc_ids.
CountWith(lookup, doc_ids) ==
    IF doc_ids = {}
    THEN /\ sent' = <<lookup>>
         /\ faults' = IF lookup.ok THEN faults ELSE <<"count_doc_ids">>
         /\ resp' = NoResponse
         /\ ret' = [kind |-> "stats", value |-> NoStats]
    ELSE \E ok \in BOOLEAN : CountFetch(lookup, doc_ids, ok)

\* stats = self._collect_daily_counts(date_range, category_keyword, self.owner)
CollectDailyCounts ==
    /\ pc = "count"
    /\ \E ok \in BOOLEAN :
        /\ MayFail(ok)
        /\ CountWith(Call("get", "count_doc_ids",
                          doc_ids_filter(date_range_arg[1].start, date_range_arg[1].end, owner),
                          10000, ok),
                     IF ok THEN doc_ids_of(IndexGet(doc_ids_filter(date_range_arg[1].start,
                                                                   date_range_arg[1].end, owner),
                                                    10000))
                     ELSE {})
    /\ pc' = "counted"
    /\ UNCHANGED <<tokens, query, reference_date, owner, date_range_arg, top_k, keywords,
                   embed_log, matched_ids, results, cursor, kept>>

SpecCounts == InitCounts /\ [][CollectDailyCounts]_vars

\* generate_response answers a question either from the chunks retrieve
\* returns or from the counts _collect_daily_counts returns.
InitQueries == Init \/ InitCounts

NextQueries == Next \/ CollectDailyCounts

SpecQueries == InitQueries /\ [][NextQueries]_vars

-----------------------------------------------------------------------------
(* HybridSearcher.search: the where_filter alone.  keywords holds the
   SearchKeywords passed, date_range_arg the base_date_range, ret the
   where_filter built. *)

\* The ranges the chat endpoint builds from date_start and date_end, which it
\* does not compare: none, November 2025, and November 2025 end first.
EndpointRanges ==
    DateRangeArgs \cup {Range(Ordinal(2025, 11, 30), Ordinal(2025, 11, 1))}

InitWhere ==
    /\ tokens \in Questions
    /\ query = TextOf(tokens)
    /\ reference_date = Today
    /\ owner \in Owners
    /\ date_range_arg \in EndpointRanges
    /\ top_k = 1
    /\ keywords \in {retrieve_keywords(query, reference_date, r) : r \in EndpointRanges}
    /\ pc = "where"
    /\ sent = <<>>
    /\ embed_log = <<>>
    /\ faults = <<>>
    /\ matched_ids = {}
    /\ resp = NoResponse
    /\ results = <<>>
    /\ cursor = 0
    /\ kept = <<>>
    /\ ret = NotReturned

\* where_filter = KeywordFilter.build_where_filter(keywords, owner, effective_date_range)
BuildWhere ==
    /\ pc = "where"
    /\ ret' = [kind |-> "where", value |-> full_filter(keywords, owner, date_range_arg)]
    /\ pc' = "built"
    /\ UNCHANGED <<tokens, query, reference_date, owner, date_range_arg, top_k, keywords,
                   sent, embed_log, faults, matched_ids, resp, results, cursor, kept>>

SpecWhere == InitWhere /\ [][BuildWhere]_vars

-----------------------------------------------------------------------------
(* QueryAnalyzer.extract_keywords called twice.  cursor holds the day
   date.today() returns, kept the SearchKeywords of the first call, results
   those of the second, both with customer_names as the list returned. *)

\* The base_date under which the clock is never read.
extract_keywords_today(q, base_date, today) == extract_keywords(q, today)

\* extract_keywords with `if base_date is None: base_date = date.today()`;
\* 0 is None.
extract_keywords_at(q, base_date, today) ==
    extract_keywords(q, IF base_date = 0 THEN today ELSE base_date)

\* list(set(...)): the lists that hold each element of S once, the order
\* being that of the hashes of the process.
Orders(S) ==
    {order \in [1..Cardinality(S) -> S] :
        \A i, j \in 1..Cardinality(S) : order[i] = order[j] => i = j}

\* The SearchKeywords a call may return: customer_names in any order.
Returnable(kw) == {[kw EXCEPT !.customer_names = order] : order \in Orders(kw.customer_names)}

\* The questions of the two calls: those of retrieve, the one-word ones and
\* one that names a week and a customer.
TwiceQuestions ==
    Questions \cup {<<w>> : w \in DateWords}
    \cup {<<"last_week", "rayuha", "customer", "consult">>}

InitTwice ==
    /\ tokens \in TwiceQuestions
    /\ query = TextOf(tokens)
    /\ reference_date \in BaseDates
    /\ owner = ""
    /\ date_range_arg = NoRange
    /\ top_k = 1
    /\ keywords = DefaultKeywords(<<>>)
    /\ pc = "first"
    /\ sent = <<>>
    /\ embed_log = <<>>
    /\ faults = <<>>
    /\ matched_ids = {}
    /\ resp = NoResponse
    /\ results = <<>>
    /\ cursor = Today
    /\ kept = <<>>
    /\ ret = NotReturned

\* The first call.
AnalyzeFirst ==
    /\ pc = "first"
    /\ \E kw \in Returnable(extract_keywords_at(query, reference_date, cursor)) :
          kept' = <<kw>>
    /\ pc' = "second"
    /\ UNCHANGED <<tokens, query, reference_date, owner, date_range_arg, top_k, keywords,
                   sent, embed_log, faults, matched_ids, resp, results, cursor, ret>>

\* The second call, made the same day or a week later, in the same process
\* or in another.
AnalyzeSecond ==
    /\ pc = "second"
    /\ \E later \in {cursor, cursor + 7} :
          /\ cursor' = later
          /\ \E kw \in Returnable(extract_keywords_at(query, reference_date, later)) :
                results' = <<kw>>
    /\ pc' = "twice"
    /\ UNCHANGED <<tokens, query, reference_date, owner, date_range_arg, top_k, keywords,
                   sent, embed_log, faults, matched_ids, resp, kept, ret>>

NextTwice == AnalyzeFirst \/ AnalyzeSecond

SpecTwice == InitTwice /\ [][NextTwice]_vars

-----------------------------------------------------------------------------
(* TodayPlanGenerator: the merge of the sub-query results.  tokens names the
   method, results holds all_results, kept the similar_tasks of the first
   run, ret those of a run on similar_tasks. *)

\* The methods that merge: generate and generate_sync of planner, generate
\* of report/planner.
MergeSites == {"generate", "generate_sync", "report_generate"}

\* text_key takes the first 30 characters in generate, the first 50 elsewhere.
KeyLength == 30
LongKeyLength == 50

\* generate and report/planner's generate keep 15 tasks, generate_sync 20.
MaxTasks == 15
MaxTasksSync == 20

key_length(site) == IF site = "generate" THEN KeyLength ELSE LongKeyLength
max_tasks(site) == IF site = "generate_sync" THEN MaxTasksSync ELSE MaxTasks

\* str.strip()
RECURSIVE strip(_)
strip(t) ==
    IF t = <<>> THEN t
    ELSE IF IsSpace(t[1]) THEN strip(Tail(t))
    ELSE IF IsSpace(t[Len(t)]) THEN strip(SubSeq(t, 1, Len(t) - 1))
    ELSE t

\* text_key = result.text[:30], or result.text[:50].strip()
text_key(site, text) ==
    IF site = "generate" THEN Take(text, key_length(site))
    ELSE strip(Take(text, key_length(site)))

\* `text_key not in seen_tasks`, after `text_key and` outside generate
is_new_task(site, key, seen_tasks) ==
    /\ key \notin seen_tasks
    /\ site = "generate" \/ key # <<>>

\* The sort key of generate_sync: date or period_start.
date_key(r) == IF r.date # 0 THEN r.date ELSE r.period_start

\* a stands at or before b under sort(..., reverse=True) of the method.
KeyGE(site, a, b) ==
    IF site = "generate_sync" THEN date_key(a) >= date_key(b)
    ELSE \/ a.date > b.date
         \/ a.date = b.date /\ b.score >= a.score

RECURSIVE InsertBeforeTies(_, _, _)
\* The insertion of a sort that is not stable: r goes before its equals.
InsertBeforeTies(site, sorted, r) ==
    IF sorted = <<>> THEN <<r>>
    ELSE IF ~KeyGE(site, r, sorted[1])
         THEN <<sorted[1]>> \o InsertBeforeTies(site, Tail(sorted), r)
         ELSE <<r>> \o sorted

RECURSIVE InsertByKey(_, _, _)
InsertByKey(site, sorted, r) ==
    IF sorted = <<>> THEN <<r>>
    ELSE IF KeyGE(site, sorted[1], r)
         THEN <<sorted[1]>> \o InsertByKey(site, Tail(sorted), r)
         ELSE <<r>> \o sorted

RECURSIVE SortByKeyFrom(_, _, _, _)
SortByKeyFrom(site, rs, i, acc) ==
    IF i > Len(rs) THEN acc ELSE SortByKeyFrom(site, rs, i + 1, InsertByKey(site, acc, rs[i]))

\* all_results.sort(key=..., reverse=True); generate does not sort.
sort_results(site, rs) ==
    IF site = "generate" THEN rs ELSE SortByKeyFrom(site, rs, 1, <<>>)

RECURSIVE DiverseFrom(_, _, _, _, _)
\* The loop that fills diverse_tasks; report/planner's generate breaks at 15.
DiverseFrom(site, rs, i, seen_tasks, diverse_tasks) ==
    IF i > Len(rs) THEN diverse_tasks
    ELSE IF site = "report_generate" /\ Len(diverse_tasks) >= max_tasks(site)
         THEN diverse_tasks
    ELSE IF is_new_task(site, text_key(site, rs[i].text), seen_tasks)
         THEN DiverseFrom(site, rs, i + 1, seen_tasks \cup {text_key(site, rs[i].text)},
                          Append(diverse_tasks, rs[i]))
         ELSE DiverseFrom(site, rs, i + 1, seen_tasks, diverse_tasks)

\* similar_tasks: the sorted results deduplicated and cut.
similar_tasks(site, all_results) ==
    Take(DiverseFrom(site, sort_results(site, all_results), 1, {}, <<>>), max_tasks(site))

\* A text of n letters "a" followed by the characters of tail.
LongText(n, tail) == [i \in 1..n |-> "a"] \o tail

\* A search result as the merge reads it.
Task(text, date_, period_start, score) ==
    [text |-> text, date |-> date_, period_start |-> period_start, score |-> score]

\* The results the sub-queries return: texts equal on their first 30 or 50
\* characters only, texts that differ by outer blanks, and a blank text.
TaskPool ==
    {Task(LongText(30, <<"1">>), Today - 1, 0, 5),
     Task(LongText(30, <<"2">>), Today - 2, 0, 7),
     Task(LongText(50, <<"1">>), Today - 1, 0, 3),
     Task(LongText(50, <<"2">>), 0, Today - 2, 4),
     Task(<<" ", " ">>, Today - 3, 0, 6),
     Task(<<" ", "a", "b">>, Today - 1, 0, 2),
     Task(<<"a", "b", " ">>, Today - 2, 0, 1)}

\* Longest list of results drawn from the pool.
MaxResults == 3

RECURSIVE TaskLists(_)
TaskLists(n) ==
    IF n = 0 THEN {<<>>}
    ELSE LET shorter == TaskLists(n - 1)
         IN  shorter \cup {Append(rs, r) : rs \in shorter, r \in TaskPool}

\* Lists of distinct tasks longer than the cut of each method.
ManyTasks == {[i \in 1..n |-> Task(<<"t", ToString(i)>>, Today - (i % 3), 0, i)] : n \in {16, 21}}

InitMerge ==
    /\ tokens \in {<<site>> : site \in MergeSites}
    /\ query = <<>>
    /\ reference_date = Today
    /\ owner = ""
    /\ date_range_arg = NoRange
    /\ top_k = 1
    /\ keywords = DefaultKeywords(<<>>)
    /\ pc = "merge"
    /\ sent = <<>>
    /\ embed_log = <<>>
    /\ faults = <<>>
    /\ matched_ids = {}
    /\ resp = NoResponse
    /\ results \in TaskLists(MaxResults) \cup ManyTasks
    /\ cursor = 0
    /\ kept = <<>>
    /\ ret = NotReturned

\* The merge of all_results into similar_tasks.
Merge ==
    /\ pc = "merge"
    /\ kept' = similar_tasks(tokens[1], results)
    /\ pc' = "merged"
    /\ UNCHANGED <<tokens, query, reference_date, owner, date_range_arg, top_k, keywords,
                   sent, embed_log, faults, matched_ids, resp, results, cursor, ret>>

\* The same merge run on the similar_tasks it produced.
MergeAgain ==
    /\ pc = "merged"
    /\ ret' = Returned(similar_tasks(tokens[1], kept))
    /\ pc' = "merged_again"
    /\ UNCHANGED <<tokens, query, reference_date, owner, date_range_arg, top_k, keywords,
                   sent, embed_log, faults, matched_ids, resp, results, cursor, kept>>

NextMerge == Merge \/ MergeAgain

SpecMerge == InitMerge /\ [][NextMerge]_vars

-----------------------------------------------------------------------------
(* Properties *)

\* The nearest-neighbour queries of HybridSearcher.search, by ladder level.
LadderSites == {"full", "simplified", "minimal"}
SentAt(site) == {i \in 1..Len(sent) : sent[i].op = "query" /\ sent[i].site = site}

\* C1: for every query whose extracted entity names are non-empty, the
\* predicate that search builds through build_where_filter and sends to the
\* index contains no date clause, whatever date the text names and whatever
\* date range the caller supplies.
C1_EntityFilterHasNoDateClause ==
    keywords.customer_names # {} =>
        \A i \in SentAt("full") : ~HasClause(sent[i].where, "date")

\* C2: each predicate tried after an empty result is looser than the one
\* before it: every chunk the full predicate matches is matched by the first
\* relaxed predicate, and every chunk the first relaxed predicate matches is
\* matched by the minimal predicate.  A chunk is any indexed chunk under any
\* of the dates chunks carry.
C2_RelaxationIsMonotone ==
    LET AnyChunk == {[c EXCEPT !.date = d.date] : c \in Chunks, d \in Chunks}
        Looser(i, j) == \A c \in AnyChunk : Matches(sent[i].where, c) => Matches(sent[j].where, c)
    IN  /\ \A i \in SentAt("full"), j \in SentAt("simplified") : Looser(i, j)
        /\ \A i \in SentAt("simplified"), j \in SentAt("minimal") : Looser(i, j)

\* C3: one call of search tries each ladder level at most once, so it issues
\* at most three nearest-neighbour queries, in the order full, first relaxed,
\* minimal; when the minimal predicate returns nothing either, search returns
\* the empty list and the index is asked nothing more.
C3_LadderIsBounded ==
    /\ \A site \in LadderSites : Cardinality(SentAt(site)) <= 1
    /\ \A i \in SentAt("simplified") : \E j \in SentAt("full") : j < i
    /\ \A i \in SentAt("minimal") : \E j \in SentAt("simplified") : j < i
    /\ \A i \in SentAt("minimal") :
          IsEmptyResponse(resp) =>
              /\ i = Len(sent)
              /\ pc = "done"
              /\ results = <<>>
              /\ ret = Returned(<<>>)

\* C3 witness: all three levels were asked, none failed, none found a chunk,
\* and the caller received the empty list.
C3_LadderExhausted ==
    /\ pc = "done"
    /\ faults = <<>>
    /\ \A site \in LadderSites : Cardinality(SentAt(site)) = 1
    /\ Len(resp.rows) = 0
    /\ ret = Returned(<<>>)

\* C4: when the embedding provider fails during a search, the failure
\* propagates to the caller and no result list is returned in its place, for
\* the main search and for every secondary search.
C4_EmbeddingFailureAborts ==
    (pc = "done" /\ \E i \in 1..Len(embed_log) : ~embed_log[i].ok) => ret = Raised

\* C5: when a vector-index query of the search fails, the search returns the
\* empty list and issues no further query under a looser predicate.
C5_IndexFailureIsFatal ==
    \A i \in 1..Len(sent) :
        (sent[i].op = "query" /\ sent[i].site \in LadderSites /\ ~sent[i].ok) =>
            /\ ~\E j \in (i + 1)..Len(sent) : sent[j].site \in LadderSites
            /\ pc = "done" => results = <<>>

\* C6: the outcome the caller receives when the search was ended by a failed
\* index query differs from the outcome of a search that found no chunk,
\* which is the empty list.
C6_FailureDiffersFromNoData ==
    (pc = "done" /\ \E i \in 1..Len(sent) :
        sent[i].op = "query" /\ sent[i].site \in {"simplified", "minimal"} /\ ~sent[i].ok)
    => ret # Returned(<<>>)

\* C7: for every statistical, comparison or entity-bearing query the list
\* the caller receives holds every candidate the search found: search drops
\* none of the candidates that pass its entity filter, and retrieve drops
\* none of what search (or the unresolved filter after it) returned.
C7_AllCandidatesReturned ==
    LET ids(rs) == {rs[i].chunk_id : i \in 1..Len(rs)}
    IN  (/\ pc = "done"
         /\ ret.kind = "list"
         /\ \/ keywords.customer_names # {}
            \/ is_statistical_query(query)
            \/ is_comparison_query(query))
        => /\ resp.ok => ids(customer_filter(ConvertRows(resp.rows), keywords)) \subseteq ids(results)
           /\ ids(IF keywords.is_unresolved_query THEN kept ELSE results) \subseteq ids(ret.value)


\* The questions step 7 of search cuts to top_k: no entity name, no
\* statistical or comparison keyword of the analyzer or of search, and no
\* all-dates keyword.
IsOrdinaryQuery ==
    /\ keywords.customer_names = {}
    /\ ~keywords.is_statistical_query
    /\ ~ContainsAny(Lower(query), search_statistical_keywords)
    /\ ~ContainsAny(Lower(query), search_comparison_keywords)
    /\ ~ContainsAny(Lower(query), all_date_keywords)

\* Whether result r holds one of the words lexical matching looks for.
HoldsQueryWord(r) ==
    ContainsAny(Lower(r.text), {Lower(w) : w \in SeqToSet(meaningful_keywords(query))})

\* r stands at or before d after the lexical reordering.
RanksBefore(r, d) ==
    \/ HoldsQueryWord(r) /\ ~HoldsQueryWord(d)
    \/ HoldsQueryWord(r) = HoldsQueryWord(d) /\ ScoreGE(r.score, d.score)

\* rs is the first k of cands as reordered: nothing left out ranks before
\* anything returned.
CutAfterReordering(cands, rs, k) ==
    /\ Len(rs) = (IF Len(cands) < k THEN Len(cands) ELSE k)
    /\ SeqToSet(rs) \subseteq SeqToSet(cands)
    /\ \A d \in SeqToSet(cands) \ SeqToSet(rs) : \A i \in 1..Len(rs) : RanksBefore(rs[i], d)

\* C8 as stated: for every query that is not statistical, not a comparison
\* and carries no entity name, search returns at most the top_k it was
\* called with.
C8_OthersTruncated ==
    (/\ pc \in {"filter", "done"}
     /\ keywords.customer_names = {}
     /\ ~is_statistical_query(query)
     /\ ~is_comparison_query(query))
    => Len(results) <= SearchTopK

\* C8 amended: for every query with no entity name, no statistical or
\* comparison keyword of the analyzer or of search and no all-dates keyword,
\* search returns at most the top_k it was called with, and what it returns
\* is the head of the candidates as the reordering passes left them.
C8_OrdinaryQueriesTruncated ==
    (pc \in {"filter", "done"} /\ IsOrdinaryQuery) =>
        /\ Len(results) <= SearchTopK
        /\ resp.ok => CutAfterReordering(ConvertRows(resp.rows), results, SearchTopK)

\* C8 witness: an ordinary query whose candidates outnumber top_k; a
\* candidate with a better score than a returned one was cut because the
\* returned one holds a word of the query.
C8_CutBelowKeywordMatch ==
    /\ pc = "done"
    /\ IsOrdinaryQuery
    /\ resp.ok
    /\ Len(resp.rows) > SearchTopK
    /\ Len(results) = SearchTopK
    /\ \E d \in SeqToSet(ConvertRows(resp.rows)) \ SeqToSet(results) :
          \E i \in 1..Len(results) : ~ScoreGE(results[i].score, d.score)

\* The words of a question that name a period relative to the base date.
RelativeWords == {"this_week", "last_week", "this_month", "last_month"}
HasWord(w) == \E i \in 1..Len(tokens) : tokens[i] = w

\* C9: for every query that holds a valid explicit date together with a
\* relative keyword the analyzer resolves the date to the explicit date; and
\* without an explicit date the first of this week, last week, this month,
\* last month that the query holds decides.
C9_ExplicitDateWins ==
    pc = "analyzed" =>
        /\ (HasWord("iso_ok") /\ \E w \in RelativeWords : HasWord(w)) =>
              /\ keywords.single_date = "2025-10-07"
              /\ keywords.date_range = NoRange
        /\ (\A i \in 1..Len(tokens) : tokens[i] \in RelativeWords \cup {"work"}) =>
              detect_date_range(query, reference_date) =
                  IF HasWord("this_week") THEN this_week_range(reference_date)
                  ELSE IF HasWord("last_week") THEN last_week_range(reference_date)
                  ELSE IF HasWord("this_month") THEN this_month_range(reference_date)
                  ELSE IF HasWord("last_month") THEN last_month_range(reference_date)
                  ELSE NoRange

\* C10: when the only dates in the query text are explicit date patterns
\* whose numbers form no calendar date, the analyzer detects no date:
\* date_range and single_date are both null.
C10_InvalidDateIsNoDate ==
    (/\ pc = "analyzed"
     /\ HasWord("iso_bad") \/ HasWord("ymd_feb29")
     /\ \A i \in 1..Len(tokens) : tokens[i] \in {"iso_bad", "ymd_feb29", "work"})
    => /\ keywords.date_range = NoRange
       /\ keywords.single_date = None

\* The next-day tasks the secondary search of a filter round returned, read
\* off the last request: none when the round sent no nearest-neighbour query
\* or the query failed.
NextDayTasks(before, after) ==
    IF /\ Len(after) > Len(before)
       /\ after[Len(after)].op = "query"
       /\ after[Len(after)].site = "secondary"
       /\ after[Len(after)].ok
    THEN ConvertRows(IndexQuery(after[Len(after)].where, after[Len(after)].n))
    ELSE <<>>

\* Twice the number of words of a that b holds too, and the words of a.
SharedTwice(a, b) == 2 * Cardinality(Words(a) \cap Words(b))
WordCount(a) == Cardinality(Words(a))

\* Some task shares more than half of the candidate's words.
MoreThanHalfShared(issue, tasks) ==
    \E i \in 1..Len(tasks) :
        /\ WordCount(tasks[i].text) > 0
        /\ SharedTwice(issue.text, tasks[i].text) > WordCount(issue.text)

RECURSIVE SumCounts(_, _)
SumCounts(date_counts, i) ==
    IF i > Len(date_counts) THEN 0 ELSE date_counts[i].n + SumCounts(date_counts, i + 1)

\* C12: for every date range the values of the date_counts that
\* _collect_daily_counts returns add up to the number of the detail chunks
\* it fetched whose category metadata or text holds the category keyword.
C12_CountsSumToMatches ==
    pc = "counted" =>
        SumCounts(ret.value.date_counts, 1) =
            Cardinality({i \in 1..Len(resp.rows) :
                \/ Contains(resp.rows[i].category, query)
                \/ Contains(Lower(resp.rows[i].text), query)})

\* C12 witness: two of the fetched chunks that hold the keyword carry the
\* same date, and one fetched chunk does not hold it.
C12_TwoOnOneDate ==
    /\ pc = "counted"
    /\ resp.ok
    /\ \E i \in 1..Len(ret.value.date_counts) : ret.value.date_counts[i].n = 2
    /\ \E i \in 1..Len(resp.rows) :
          ~Contains(resp.rows[i].category, query) /\ ~Contains(Lower(resp.rows[i].text), query)

\* C13: the prefix deduplication of the merge, run on a list it has already
\* produced, returns that list unchanged.
C13_DedupIsIdempotent ==
    pc = "merged_again" => ret = Returned(kept)

\* C13 witness: the first run dropped a result whose key another result had
\* taken, and the second run was made on what was left.
C13_DuplicateDropped ==
    /\ pc = "merged_again"
    /\ Len(kept) >= 2
    /\ Len(kept) < Len(results)
    /\ \E i, j \in 1..Len(results) :
          /\ i # j
          /\ results[i].text # results[j].text
          /\ text_key(tokens[1], results[i].text) = text_key(tokens[1], results[j].text)

\* C14: whenever an owner is supplied, every query or fetch sent to the
\* index with a predicate (the full predicate, both relaxed predicates, the
\* entity direct lookup, the fetches of the counts and the next-day lookups)
\* carries the clause owner = that owner, and no chunk of another owner is
\* among the rows received or the results returned.
C14_OwnerClauseEverywhere ==
    owner # "" =>
        /\ \A i \in 1..Len(sent) :
              sent[i].site # "direct" =>
                  \E j \in 1..Len(sent[i].where) : sent[i].where[j] = Eq("owner", owner)
        /\ \A i \in 1..Len(resp.rows) : resp.rows[i].owner = owner
        /\ \A i \in 1..Len(results) : results[i].metadata.owner = owner
        /\ ret.kind = "list" => \A i \in 1..Len(ret.value) : ret.value[i].metadata.owner = owner

\* C14 witness: a search for an owner went down to the minimal predicate,
\* which without its owner clause matches a chunk of another owner, and
\* returned chunks.
C14_OtherOwnerKeptOut ==
    /\ owner # ""
    /\ pc = "done"
    /\ ret.kind = "list"
    /\ ret.value # <<>>
    /\ \E i \in SentAt("minimal") :
          \E c \in Chunks :
              /\ c.owner # owner
              /\ \A j \in 1..Len(sent[i].where) :
                    sent[i].where[j].f # "owner" => CondHolds(sent[i].where[j], c)

\* The clauses of a predicate on the field date.
DateClauses(where) == SelectSeq(where, LAMBDA cond : cond.f = "date")

\* Every date from start to end inclusive, as the index stores dates.
EveryDate(range) ==
    [i \in 1..(range[1].end - range[1].start + 1) |-> strftime(range[1].start + i - 1)]

\* C15: for a query without entity names, build_where_filter emits exactly
\* one date clause: equality on single_date if it is set; otherwise
\* membership in the list of every date of keywords.date_range from start to
\* end; otherwise membership in the dates of the fallback window (the
\* caller's base_date_range, or the last 365 days when the caller has none).
C15_OneDateClauseByPrecedence ==
    (pc = "built" /\ keywords.customer_names = {}) =>
        DateClauses(ret.value) =
            IF keywords.single_date # None THEN <<Eq("date", keywords.single_date)>>
            ELSE IF keywords.date_range # NoRange
                 THEN <<In("date", EveryDate(keywords.date_range))>>
            ELSE IF date_range_arg # NoRange
                 THEN <<In("date", EveryDate(date_range_arg))>>
            ELSE <<In("date", EveryDate(Range(Today - DefaultWindowDays, Today)))>>

\* The Monday of the ISO week that holds day: the Monday among the seven
\* days that end with it, 2025-11-10 being a Monday.
IsoMonday(day) == CHOOSE m \in (day - 6)..day : (Ordinal(2025, 11, 10) - m) % 7 = 0

\* The question holds no explicit date, valid or not.
OnlyRelativeWords == \A i \in 1..Len(tokens) : tokens[i] \in RelativeWords \cup {"work"}

\* C16: for every base_date, Saturdays and Sundays included, a question
\* about this week yields Monday..Friday of the ISO week that holds
\* base_date, and a question about last week yields Monday..Friday of the
\* ISO week before it, the same range seven days earlier.
C16_WeekIsMondayToFriday ==
    (pc = "analyzed" /\ OnlyRelativeWords) =>
        /\ HasWord("this_week") =>
              /\ keywords.date_range =
                    Range(IsoMonday(reference_date), IsoMonday(reference_date) + 4)
              /\ keywords.single_date = None
        /\ (HasWord("last_week") /\ ~HasWord("this_week")) =>
              /\ keywords.date_range =
                    Range(IsoMonday(reference_date) - 7, IsoMonday(reference_date) - 3)
              /\ keywords.single_date = None

\* C16 witness: a question about this week asked on a Sunday got the five
\* days that ended two days before.
C16_AskedOnSunday ==
    /\ pc = "analyzed"
    /\ OnlyRelativeWords
    /\ HasWord("this_week")
    /\ reference_date = Ordinal(2025, 11, 16)
    /\ keywords.date_range = Range(Ordinal(2025, 11, 10), Ordinal(2025, 11, 14))

ExplicitDateDetected == FirstSpecificDate(1, Normalize(query), reference_date) # NoRange

\* C18: after extract_keywords, single_date is non-null exactly when an
\* explicit absolute date was detected in the query, and single_date and
\* date_range are never both non-null: an explicit date yields single_date
\* and no range, a relative keyword yields a range and no single_date.
C18_SingleDateOrRange ==
    pc = "analyzed" =>
        /\ keywords.single_date # None <=> ExplicitDateDetected
        /\ ~(keywords.single_date # None /\ keywords.date_range # NoRange)
        /\ ExplicitDateDetected => keywords.date_range = NoRange
        /\ (~ExplicitDateDetected /\ \E w \in RelativeWords : HasWord(w)) =>
              /\ keywords.date_range # NoRange
              /\ keywords.single_date = None

\* C18 witness: a question that names a date and this week came back with
\* the date as single_date and without a range.
C18_DateBesideRelativeWord ==
    /\ pc = "analyzed"
    /\ HasWord("iso_ok")
    /\ HasWord("this_week")
    /\ keywords.single_date = "2025-10-07"
    /\ keywords.date_range = NoRange

\* The candidates of the search: the results made of the rows the last
\* query of the ladder received.
Candidates ==
    LET ladder == {i \in 1..Len(sent) : sent[i].site \in LadderSites}
        last == CHOOSE i \in ladder : \A j \in ladder : j <= i
    IN  IF ladder # {} /\ sent[last].ok
        THEN ConvertRows(IndexQuery(sent[last].where, sent[last].n))
        ELSE <<>>

\* The matching results by descending score, then the others likewise.
MatchedThenOthers(rs, names) ==
    SortDesc(SelectSeq(rs, LAMBDA r : NameMatches(r, names)))
    \o SortDesc(SelectSeq(rs, LAMBDA r : ~NameMatches(r, names)))

\* The reordering the entity names call for: none without a match.
EntityBoostHolds(rs, names) ==
    (names # {} /\ \E i \in 1..Len(rs) : NameMatches(rs[i], names)) =>
        entity_rerank(rs, keywords) = MatchedThenOthers(rs, names)

\* C19: when the entity names without the stop words are non-empty and some
\* result holds one of them in its text or its customer metadata, the list
\* after the entity steps is the matching results by descending score
\* followed by all the other results by descending score; none is removed.
C19_EntityBoostKeepsAll ==
    EntityBoostHolds(Candidates, keywords.customer_names \ excluded_words)

\* The text of r holds one of the words kws.
HoldsToken(r, kws) == \E w \in kws : Contains(Lower(r.text), Lower(w))

\* out holds the results of given, those with a token first, each group by
\* descending score.
TokenHoldersFirst(given, out, kws) ==
    /\ Len(out) = Len(given)
    /\ SeqToSet(out) = SeqToSet(given)
    /\ \A i, j \in 1..Len(out) :
          i < j =>
              /\ HoldsToken(out[j], kws) => HoldsToken(out[i], kws)
              /\ (HoldsToken(out[i], kws) <=> HoldsToken(out[j], kws)) =>
                    ScoreGE(out[i].score, out[j].score)

\* The lexical step applied to what the entity steps left.
LexicalBoostHolds(given) ==
    meaningful_keywords(query) # <<>> =>
        TokenHoldersFirst(given, keyword_boost(given, query),
                          SeqToSet(meaningful_keywords(query)))

\* C20: when the query has a meaningful token (two characters or more, not
\* a stop word), the list the lexical boost produces places every result
\* whose text holds a token before every result that holds none, each group
\* by descending score, and holds exactly the results it was given.
C20_LexicalBoostPartitions ==
    LexicalBoostHolds(entity_rerank(Candidates, keywords))

\* A result without a token was given ahead of a result with one that
\* scores lower.
TokenHolderOvertakes(given, kws) ==
    \E i, j \in 1..Len(given) :
        /\ i < j
        /\ ~HoldsToken(given[i], kws)
        /\ HoldsToken(given[j], kws)
        /\ ~ScoreGE(given[j].score, given[i].score)

\* C20 witness: the search ended on candidates among which a result with a
\* token scored lower than one without.
C20_LowerScoreMovedUp ==
    /\ pc = "done"
    /\ ret.kind = "list"
    /\ TokenHolderOvertakes(entity_rerank(Candidates, keywords),
                            SeqToSet(meaningful_keywords(query)))

\* The calls of embed_text that search itself made.
SearchEmbeddings == {i \in 1..Len(embed_log) : embed_log[i].site \in {"main", "direct"}}

\* C21: each call of search calls the embedding provider exactly once for
\* the query text, on every path, the one of the entity direct lookup
\* included.
C21_OneEmbeddingPerSearch ==
    pc \in {"filter", "done"} => Cardinality(SearchEmbeddings) = 1

RECURSIVE IsSubsequence(_, _)
\* The elements of a are found in b in the same order.
IsSubsequence(a, b) ==
    IF a = <<>> THEN TRUE
    ELSE IF b = <<>> THEN FALSE
    ELSE IF a[1] = b[1] THEN IsSubsequence(Tail(a), Tail(b))
    ELSE IsSubsequence(a, Tail(b))

\* The date metadata of r is missing or is no date written YYYY-MM-DD.
HasNoDate(r) ==
    r.metadata.date = "" \/ \A n \in DateUniverse : strftime(n) # r.metadata.date

\* C22: the unresolved-item filter fails open: a candidate whose date
\* metadata is missing or unparseable is kept and no next-day lookup is
\* issued for it, and the list the filter builds is a subsequence of its
\* input, in the same order and with nothing added.
C22_FilterFailsOpen ==
    [][/\ IsSubsequence(kept', results')
       /\ (pc = "filter" /\ cursor' = cursor + 1 /\ HasNoDate(results[cursor])) =>
             /\ kept' = Append(kept, results[cursor])
             /\ sent' = sent
             /\ embed_log' = embed_log]_vars

\* C22 witness: the filter ended having kept a candidate without a date and
\* a candidate whose date is not written YYYY-MM-DD, and sent nothing.
C22_UndatedKept ==
    /\ pc = "done"
    /\ keywords.is_unresolved_query
    /\ \E i, j \in 1..Len(kept) :
          /\ kept[i].metadata.date = ""
          /\ kept[j].metadata.date # ""
          /\ HasNoDate(kept[j])
    /\ \A i \in 1..Len(sent) : sent[i].site \in LadderSites

\* C23: the SearchKeywords that extract_keywords returned is never modified
\* afterwards: the value retrieve, the filter building, search and the
\* unresolved filter work with is the one the analyzer returned.
C23_KeywordsNeverModified ==
    pc # "retrieve" => keywords = extract_keywords(query, reference_date)

\* C24: every query for which is_unresolved_query is true is given
\* chunk_types = [pending], so the unresolved-item filter of retrieve only
\* receives candidates of chunk_type pending.
C24_UnresolvedMeansPending ==
    (pc # "retrieve" /\ keywords.is_unresolved_query) =>
        /\ keywords.chunk_types = <<"pending">>
        /\ pc = "filter" => \A i \in 1..Len(results) : results[i].chunk_type = "pending"

\* The first query of the ladder succeeded and received candidates.
FirstQueryFound(i) ==
    /\ sent[i].ok
    /\ IndexQuery(sent[i].where, sent[i].n) # <<>>

\* C25: if the first filtered query of search returns at least one
\* candidate, no relaxed query is issued, and every result returned on that
\* path satisfies the full predicate: its owner, chunk-type and date clauses.
C25_NoRelaxationAfterHit ==
    \A i \in SentAt("full") :
        FirstQueryFound(i) =>
            /\ SentAt("simplified") = {}
            /\ SentAt("minimal") = {}
            /\ \A j \in 1..Len(results) : Matches(sent[i].where, results[j].metadata)
            /\ ret.kind = "list" =>
                  \A j \in 1..Len(ret.value) : Matches(sent[i].where, ret.value[j].metadata)

\* C25 witness: a search ended on the candidates of its first query while
\* the owner has a chunk that only a looser predicate matches.
C25_HitLeavesOthersOut ==
    /\ pc = "done"
    /\ ret.kind = "list"
    /\ ret.value # <<>>
    /\ \E i \in SentAt("full") :
          /\ FirstQueryFound(i)
          /\ \E c \in Chunks : ~Matches(sent[i].where, c) /\ Matches(minimal_filter(owner), c)

\* The chunks within the owner and chunk-type filter of the lookup, of any
\* date, whose customer metadata or text holds an entity name that is no
\* excluded word.
NamedChunks ==
    {c \in Chunks :
        /\ owner # "" => c.owner = owner
        /\ c.chunk_type \in SeqToSet(keywords.chunk_types)
        /\ \E name \in keywords.customer_names \ excluded_words :
              Contains(Lower(c.customer), name) \/ Contains(Lower(c.text), name)}

\* rs holds the chunks of S once each, by descending similarity.
IsBySimilarity(rs, S) ==
    /\ Len(rs) = Cardinality(S)
    /\ {rs[i].metadata : i \in 1..Len(rs)} = S
    /\ \A i \in 1..Len(rs) : rs[i].score = CosineScore(rs[i].metadata)
    /\ \A i, j \in 1..Len(rs) : i < j => ScoreGE(rs[i].score, rs[j].score)

\* What search did was the direct path alone.
DirectPathOnly(S) ==
    /\ IsBySimilarity(results, S)
    /\ \A i \in 1..Len(sent) : sent[i].op # "query" \/ sent[i].site \notin LadderSites

\* The direct lookup succeeded and search returned a list to retrieve.
LookupAnswered ==
    /\ pc \in {"filter", "done"}
    /\ ret # Raised
    /\ \E i \in 1..Len(sent) : sent[i].site = "lookup" /\ sent[i].ok

\* C26: when the entity direct lookup finds at least one chunk whose
\* customer metadata or text holds a non-excluded entity name, search
\* returns exactly those chunks by descending similarity, without top-k
\* truncation and without any nearest-neighbour query or relaxation.
C26_DirectLookupAnswers ==
    (LookupAnswered /\ NamedChunks # {}) => DirectPathOnly(NamedChunks)

\* The ISO dates of the days of the requested range.
RequestedDates ==
    {strftime(n) : n \in date_range_arg[1].start..date_range_arg[1].end}

\* The detail chunks the owner clause admits that hold the category keyword
\* and carry a date outside the requested range.
MatchesOutsideRange ==
    {c \in Chunks :
        /\ c.chunk_type = "detail"
        /\ owner = "" \/ c.owner = owner
        /\ is_match(c, query)
        /\ c.date # ""
        /\ c.date \notin RequestedDates}

\* C27: every date key of the date_counts that _collect_daily_counts
\* returns is a day of the requested date range [start, end].
C27_CountedDatesInRange ==
    pc = "counted" =>
        \A i \in 1..Len(ret.value.date_counts) :
            ret.value.date_counts[i].date \in RequestedDates

\* C27 witness: the aggregator counted detail chunks of the range while a
\* detail chunk of the owner that holds the keyword is dated outside it.
C27_MatchOutsideRangeLeftOut ==
    /\ pc = "counted"
    /\ resp.ok
    /\ ret.value.date_counts # <<>>
    /\ MatchesOutsideRange # {}

\* C28: in the dictionary _collect_daily_counts returns, a non-empty
\* date_counts has max_count as its largest value and holds max_count
\* under the key max_date; with an empty date_counts max_date is None and
\* max_count is 0.
C28_MaxIsLargestCount ==
    pc = "counted" =>
        IF ret.value.date_counts # <<>>
        THEN /\ \A i \in 1..Len(ret.value.date_counts) :
                   ret.value.date_counts[i].n <= ret.value.max_count
             /\ \E i \in 1..Len(ret.value.date_counts) :
                   /\ ret.value.date_counts[i].date = ret.value.max_date
                   /\ ret.value.date_counts[i].n = ret.value.max_count
        ELSE ret.value.max_date = None /\ ret.value.max_count = 0

\* C28 witness: two dates were counted and the date counted first does not
\* have the largest count.
C28_LaterDateIsLargest ==
    /\ pc = "counted"
    /\ Len(ret.value.date_counts) >= 2
    /\ ret.value.date_counts[1].n < ret.value.max_count

-----------------------------------------------------------------------------
(* ReportRAGChain.generate_response.  date_range_arg holds the date_range
   of the call and, after the first step, the range in force; on the
   statistical path query holds category_keyword from then on; ret ends as
   the dictionary returned. *)

\* ReportRAGChain._detect_relative_date_range
detect_relative_date_range(q, base_date) == DetectNormalized(Normalize(q), base_date)

\* ReportRAGChain._is_unresolved_task_query
is_unresolved_task_query(q) == ContainsAny(Lower(q), unresolved_keywords)

\* category_keyword of the statistical path
category_keyword_of(q) ==
    IF Contains(Lower(q), <<"sang", "dam">>) THEN <<"sang", "dam">>
    ELSE IF Contains(Lower(q), <<"eop", "mu">>) THEN <<"eop", "mu">>
    ELSE <<"sang", "dam">>

\* The length of a text_preview, and the number of details given as sources.
PreviewLength == 100
MaxSources == 10

\* text[:100] + "..." if len(text) > 100 else text
text_preview(text) ==
    IF Len(text) > PreviewLength THEN Take(text, PreviewLength) \o <<"...">> ELSE text

\* round(score, 3), in thousandths; a tie goes to the even neighbour.
round3(score) ==
    LET q == (1000 * score.num) \div score.den
        r == (1000 * score.num) % score.den
    IN  IF 2 * r > score.den THEN q + 1
        ELSE IF 2 * r = score.den THEN q + (q % 2)
        ELSE q

\* The sources of the statistical path: the first details, score 1.0.
stats_sources(details) ==
    [i \in 1..Len(Take(details, MaxSources)) |->
        [date |-> details[i].date, time_slot |-> "", chunk_type |-> "detail",
         category |-> details[i].category, text_preview |-> details[i].text,
         score |-> 1000]]

\* The sources of the normal path: one for each result retrieved.
sources_of(rs) ==
    [i \in 1..Len(rs) |->
        [date |-> rs[i].metadata.date, time_slot |-> "", chunk_type |-> rs[i].chunk_type,
         category |-> rs[i].metadata.category, text_preview |-> text_preview(rs[i].text),
         score |-> round3(rs[i].score)]]

\* A dictionary generate_response returns; answer names the message.
Answered(answer, sources, has_results) ==
    [kind |-> "dict",
     value |-> [answer |-> answer, sources |-> sources, has_results |-> has_results]]

\* The dictionary of the statistical path for the stats collected.
statistics_answer(stats) ==
    IF stats.max_date \notin {None, ""} /\ stats.max_count > 0
    THEN Answered("statistics", stats_sources(stats.details), TRUE)
    ELSE Answered("no_statistics", <<>>, FALSE)

\* The dictionary returned when retrieve found nothing.
empty_answer(q) ==
    Answered(IF is_unresolved_task_query(q) THEN "no_unresolved" ELSE "not_found",
             <<>>, FALSE)

\* An answer that names the sources also when the LLM failed.
llm_answer_naming_sources(rs, ok) ==
    Answered(IF ok THEN "llm" ELSE "llm_error", sources_of(rs), ok)

\* The dictionary returned after the call of the LLM for the results rs.
llm_answer(rs, ok) ==
    IF ok THEN Answered("llm", sources_of(rs), TRUE)
    ELSE Answered("llm_error", <<>>, FALSE)

InitGenerate ==
    /\ tokens \in Questions
    /\ query = TextOf(tokens)
    /\ reference_date = Today
    /\ owner \in Owners
    /\ date_range_arg \in DateRangeArgs
    /\ top_k \in 1..MaxTopK
    /\ keywords = DefaultKeywords(<<>>)
    /\ pc = "generate"
    /\ sent = <<>>
    /\ embed_log = <<>>
    /\ faults = <<>>
    /\ matched_ids = {}
    /\ resp = NoResponse
    /\ results = <<>>
    /\ cursor = 0
    /\ kept = <<>>
    /\ ret = NotReturned

\* The range in force and the path taken for it.
TakePath(range) ==
    /\ date_range_arg' = range
    /\ IF rag_is_statistical_query(query) /\ range # NoRange
       THEN pc' = "count" /\ query' = category_keyword_of(query)
       ELSE pc' = "retrieve" /\ query' = query

\* generate_response up to the choice between the statistical path and
\* retrieve: a range detected in the question replaces date_range.
GenerateResponse ==
    /\ pc = "generate"
    /\ TakePath(IF detect_relative_date_range(query, reference_date) # NoRange
                THEN detect_relative_date_range(query, reference_date)
                ELSE date_range_arg)
    /\ UNCHANGED <<tokens, reference_date, owner, top_k, keywords, sent, embed_log, faults,
                   matched_ids, resp, results, cursor, kept, ret>>

\* The statistical path after _collect_daily_counts returned.
AnswerStatistics ==
    /\ pc = "counted"
    /\ ret' = statistics_answer(ret.value)
    /\ pc' = "answered"
    /\ UNCHANGED <<tokens, query, reference_date, owner, date_range_arg, top_k, keywords,
                   sent, embed_log, faults, matched_ids, resp, results, cursor, kept>>

\* generate_response after retrieve returned with nothing.
AnswerEmpty ==
    /\ pc = "done"
    /\ ret = Returned(<<>>)
    /\ ret' = empty_answer(query)
    /\ pc' = "answered"
    /\ UNCHANGED <<tokens, query, reference_date, owner, date_range_arg, top_k, keywords,
                   sent, embed_log, faults, matched_ids, resp, results, cursor, kept>>

\* generate_response after retrieve returned results: the call of the LLM,
\* which may raise, and the sources.
AnswerWithLLM ==
    /\ pc = "done"
    /\ ret.kind = "list"
    /\ ret.value # <<>>
    /\ \E ok \in BOOLEAN :
        /\ MayFail(ok)
        /\ faults' = IF ok THEN faults ELSE Append(faults, "llm")
        /\ ret' = llm_answer(ret.value, ok)
    /\ pc' = "answered"
    /\ UNCHANGED <<tokens, query, reference_date, owner, date_range_arg, top_k, keywords,
                   sent, embed_log, matched_ids, resp, results, cursor, kept>>

NextGenerate ==
    \/ GenerateResponse
    \/ CollectDailyCounts
    \/ AnswerStatistics
    \/ Next
    \/ AnswerEmpty
    \/ AnswerWithLLM

SpecGenerate == InitGenerate /\ [][NextGenerate]_vars

\* C29: every dictionary generate_response returns has has_results true
\* exactly when its sources list is not empty.
C29_HasResultsIffSources ==
    ret.kind = "dict" => (ret.value.has_results <=> ret.value.sources # <<>>)

\* C29 witness: the statistical path answered with sources.
C29_StatisticsWithSources ==
    /\ pc = "answered"
    /\ ret.value.answer = "statistics"
    /\ ret.value.sources # <<>>

-----------------------------------------------------------------------------
(* get_embedding_service called by the constructors of HybridSearcher and
   UnifiedRetriever from several threads.  tokens holds the model_type
   argument of each caller, kept each caller's position in the function,
   results the EmbeddingService instances constructed so far, cursor the
   module global _embedding_service (0 is None, otherwise the index of the
   instance in results), sent the instance each caller has constructed and
   not yet stored, ret the instance each caller received (0 before its
   return). *)

\* The number of threads that construct a retriever.
MaxCallers == 2

Callers == 1..MaxCallers

\* The model_type arguments of the constructors.
ModelTypes == {None, "hf", "openai"}

\* EmbeddingService.__init__: model_type or os.getenv(..., "hf")
EmbeddingService(model_type) ==
    [model_type |-> IF model_type = None THEN "hf" ELSE model_type]

Services(received) == [kind |-> "services", value |-> received]

InitEmbedding ==
    /\ tokens \in [Callers -> ModelTypes]
    /\ query = <<>>
    /\ reference_date = Today
    /\ owner = ""
    /\ date_range_arg = NoRange
    /\ top_k = 1
    /\ keywords = DefaultKeywords(<<>>)
    /\ pc = "constructors"
    /\ sent = [t \in Callers |-> 0]
    /\ embed_log = <<>>
    /\ faults = <<>>
    /\ matched_ids = {}
    /\ resp = NoResponse
    /\ results = <<>>
    /\ cursor = 0
    /\ kept = [t \in Callers |-> "start"]
    /\ ret = Services([t \in Callers |-> 0])

\* What a step of a thread leaves alone besides the variables it names.
OtherThreadsState ==
    /\ pc = "constructors"
    /\ UNCHANGED <<tokens, query, reference_date, owner, date_range_arg, top_k, keywords,
                   pc, embed_log, faults, matched_ids, resp>>

\* self.embedding_service = get_embedding_service(model_type=...): the call
CallGetEmbeddingService(t) ==
    /\ kept[t] = "start"
    /\ kept' = [kept EXCEPT ![t] = "check"]
    /\ UNCHANGED <<results, cursor, sent, ret>>
    /\ OtherThreadsState

\* if _embedding_service is None
CheckIsNone(t) ==
    /\ kept[t] = "check"
    /\ kept' = [kept EXCEPT ![t] = IF cursor = 0 THEN "construct" ELSE "return"]
    /\ UNCHANGED <<results, cursor, sent, ret>>
    /\ OtherThreadsState

\* EmbeddingService(api_key=api_key, model_type=model_type)
Construct(t) ==
    /\ kept[t] = "construct"
    /\ results' = Append(results, EmbeddingService(tokens[t]))
    /\ sent' = [sent EXCEPT ![t] = Len(results) + 1]
    /\ kept' = [kept EXCEPT ![t] = "store"]
    /\ UNCHANGED <<cursor, ret>>
    /\ OtherThreadsState

\* _embedding_service = <the instance constructed>
StoreGlobal(t) ==
    /\ kept[t] = "store"
    /\ cursor' = sent[t]
    /\ sent' = [sent EXCEPT ![t] = 0]
    /\ kept' = [kept EXCEPT ![t] = "return"]
    /\ UNCHANGED <<results, ret>>
    /\ OtherThreadsState

\* return _embedding_service
ReturnGlobal(t) ==
    /\ kept[t] = "return"
    /\ ret' = Services([ret.value EXCEPT ![t] = cursor])
    /\ kept' = [kept EXCEPT ![t] = "returned"]
    /\ UNCHANGED <<results, cursor, sent>>
    /\ OtherThreadsState

\* One step of one of the threads.
NextEmbedding ==
    \/ \E t \in Callers : CallGetEmbeddingService(t)
    \/ \E t \in Callers : CheckIsNone(t)
    \/ \E t \in Callers : Construct(t)
    \/ \E t \in Callers : StoreGlobal(t)
    \/ \E t \in Callers : ReturnGlobal(t)

SpecEmbedding == InitEmbedding /\ [][NextEmbedding]_vars

\* C30: get_embedding_service constructs at most one EmbeddingService,
\* also when several threads call it concurrently, and every caller
\* receives that one instance.
C30_OneEmbeddingService ==
    pc = "constructors" =>
        /\ Len(results) <= 1
        /\ \A t, u \in Callers :
              (ret.value[t] # 0 /\ ret.value[u] # 0) => ret.value[t] = ret.value[u]

=============================================================================
